---- MODULE Spec2Model ----
(***************************************************************************)
(* A model of the shell of codecrafters-shell-rust: the tokenizer and the  *)
(* redirect extractor of parser.rs, the output files of io_helpers.rs, the *)
(* builtins of builtins/mod.rs and the read-dispatch loop of shell.rs.     *)
(*                                                                         *)
(* A Rust String is a TLA+ string and a char is a string of length 1.      *)
(* Three specifications share the variables:                               *)
(*   SpecTok       the character scan of tokenize, one loop pass a step;   *)
(*   SpecRedirect  parse_redirect applied to token sequences;              *)
(*   Spec          the loop of Shell::run, one position of the loop body   *)
(*                 a step.                                                 *)
(***************************************************************************)
EXTENDS Integers, Sequences, FiniteSets, TLC

VARIABLES
    \* ---- tokenize (parser.rs:16-60)
    input,                  \* the &str handed to tokenize
    input_chars,            \* what the Peekable<Chars> has not yielded yet
    current_token,
    tokens,
    is_in_single_quotes,
    is_in_double_quotes,
    tok_pc,                 \* "scan" | "done" | "idle"
    tok_result,             \* what tokenize returned
    \* ---- parse_redirect on its own (parser.rs:89-134)
    rd_input,               \* the Vec<String> handed to parse_redirect
    rd_pc,                  \* "call" | "returned" | "again" | "idle"
    rd_result,              \* the first call's result
    rd_again,               \* the result of a second call on the first one's tokens
    \* ---- Shell::run (shell.rs:21-115)
    sh_pc,                  \* "prompt" | "read" | "resolve" | "dispatch" | "wait" |
                            \* "exited" | "returned" | "idle"
    stdin_read,             \* the lines read from standard input so far
    stdin_eof,              \* standard input has reported its end
    command,
    parts,
    redirect,
    stdout_redirect_file,
    stderr_redirect_file,
    fs,                     \* the files: path -> [exists, data]
    fs_initial,             \* the files as the shell found them
    cwd,                    \* the working directory of the process
    term_out,               \* what standard output was sent since the last prompt
    term_err,               \* what standard error was sent since the last prompt
    events,                 \* what the cycle did so far: opens, builtin, spawn, wait
    child,                  \* the child process being waited for
    exit_code               \* the status process::exit was called with

tokVars == <<input, input_chars, current_token, tokens, is_in_single_quotes,
             is_in_double_quotes, tok_pc, tok_result>>
rdVars == <<rd_input, rd_pc, rd_result, rd_again>>
shVars == <<sh_pc, stdin_read, stdin_eof, command, parts, redirect, stdout_redirect_file,
            stderr_redirect_file, fs, fs_initial, cwd, term_out, term_err, events, child,
            exit_code>>
vars == <<tokVars, rdVars, shVars>>

-----------------------------------------------------------------------------
(* Strings and chars *)

Char(s, i) == SubSeq(s, i, i)
First(s) == SubSeq(s, 1, 1)
Rest(s) == SubSeq(s, 2, Len(s))
Last(s) == SubSeq(s, Len(s), Len(s))

\* U+0060 cannot stand in a TLA+ string literal; this char stands for it.
BACKTICK == "^"

\* char::is_whitespace, on the chars the model's inputs are made of.
WhitespaceChars == {" ", "\t", "\n", "\r", "\f"}
is_whitespace(c) == c \in WhitespaceChars

DigitChars == {"0", "1", "2", "3", "4", "5", "6", "7", "8", "9"}
is_ascii_digit(c) == c \in DigitChars

\* Option and Result
None == [some |-> FALSE]
Ok(v) == [ok |-> TRUE, val |-> v]
Err(e) == [ok |-> FALSE, err |-> e]

-----------------------------------------------------------------------------
(* str::parse::<u32> on a run of ASCII digits *)

DigitValue(c) ==
    CASE c = "0" -> 0 [] c = "1" -> 1 [] c = "2" -> 2 [] c = "3" -> 3
      [] c = "4" -> 4 [] c = "5" -> 5 [] c = "6" -> 6 [] c = "7" -> 7
      [] c = "8" -> 8 [] c = "9" -> 9

RECURSIVE StripZeros(_)
StripZeros(s) == IF Len(s) > 1 /\ First(s) = "0" THEN StripZeros(Rest(s)) ELSE s

\* a < b for two digit strings of one length
RECURSIVE DigitsLess(_, _)
DigitsLess(a, b) ==
    IF a = "" THEN FALSE
    ELSE IF First(a) # First(b) THEN DigitValue(First(a)) < DigitValue(First(b))
    ELSE DigitsLess(Rest(a), Rest(b))

\* u32::MAX, in decimal
U32MaxDigits == "4294967295"

\* whether the number the digits write is above u32::MAX
OverflowsU32(digits) ==
    LET n == StripZeros(digits)
    IN  \/ Len(n) > Len(U32MaxDigits)
        \/ Len(n) = Len(U32MaxDigits) /\ DigitsLess(U32MaxDigits, n)

RECURSIVE Horner(_, _)
Horner(acc, s) == IF s = "" THEN acc ELSE Horner(acc * 10 + DigitValue(First(s)), Rest(s))

\* fd_part.parse::<u32>(): the value, or an error on overflow (fd_part is a
\* non-empty digit run, so the parse has no other error). TLC's
\* integers end at 2^31 - 1: the inputs hold no run between 2^31 and 2^32 - 1.
parse_u32(digits) ==
    IF OverflowsU32(digits) THEN Err("number too large to fit in target type")
    ELSE Ok(Horner(0, StripZeros(digits)))

-----------------------------------------------------------------------------
(* parser.rs: the redirect extractor *)

CREATE == "CREATE"
APPEND == "APPEND"

Redirect(fd, target, redirect_type) ==
    [some |-> TRUE, fd |-> fd, target |-> target, redirect_type |-> redirect_type]

\* op_token.find(|c| !c.is_ascii_digit()).unwrap_or(op_token.len())
RECURSIVE find_non_digit(_)
find_non_digit(s) ==
    IF s = "" \/ ~is_ascii_digit(First(s)) THEN 0 ELSE 1 + find_non_digit(Rest(s))

\* a slip: the two modes the wrong way round
redirect_type_of_swapped(op_part) ==
    IF op_part = ">>" THEN [some |-> TRUE, val |-> CREATE]
    ELSE IF op_part = ">" THEN [some |-> TRUE, val |-> APPEND]
    ELSE None

\* lines 100-104
redirect_type_of(op_part) ==
    IF op_part = ">>" THEN [some |-> TRUE, val |-> APPEND]
    ELSE IF op_part = ">" THEN [some |-> TRUE, val |-> CREATE]
    ELSE None

\* a slip: any token ending in '>' is taken for an operator, and what stands
\* before the '>' must parse as a number
parse_redirect_strict(toks) ==
    IF Len(toks) < 2 THEN [ok |-> TRUE, tokens |-> toks, redirect |-> None]
    ELSE
      LET op_token == toks[Len(toks) - 1]
          fd_str == SubSeq(op_token, 1, Len(op_token) - 1)
      IN  IF op_token = "" \/ Last(op_token) # ">"
          THEN [ok |-> TRUE, tokens |-> toks, redirect |-> None]
          ELSE IF fd_str # "" /\ (find_non_digit(fd_str) < Len(fd_str) \/ OverflowsU32(fd_str))
          THEN Err("invalid file descriptor: " \o fd_str)
          ELSE [ok |-> TRUE,
                tokens |-> SubSeq(toks, 1, Len(toks) - 2),
                redirect |-> Redirect(IF fd_str = "" THEN 1 ELSE Horner(0, StripZeros(fd_str)),
                                      toks[Len(toks)], CREATE)]

\* parse_redirect(&mut tokens): the tokens as the call leaves them and the
\* Option<Redirect> it returns, or the error string.
parse_redirect(toks) ==
    IF Len(toks) < 2 THEN [ok |-> TRUE, tokens |-> toks, redirect |-> None]
    ELSE
      LET op_token == toks[Len(toks) - 1]
          split_idx == find_non_digit(op_token)
          fd_part == SubSeq(op_token, 1, split_idx)
          op_part == SubSeq(op_token, split_idx + 1, Len(op_token))
          redirect_type_optional == redirect_type_of(op_part)
      IN  IF ~redirect_type_optional.some
          THEN [ok |-> TRUE, tokens |-> toks, redirect |-> None]
          ELSE
            LET fd_result == IF fd_part = "" THEN Ok(1) ELSE parse_u32(fd_part)
            IN  IF ~fd_result.ok
                THEN Err("invalid file descriptor: " \o fd_part)
                ELSE [ok |-> TRUE,
                      tokens |-> SubSeq(toks, 1, Len(toks) - 2),
                      redirect |-> Redirect(fd_result.val, toks[Len(toks)],
                                            redirect_type_optional.val)]

-----------------------------------------------------------------------------
(* parser.rs: the tokenizer *)

\* the locals of tokenize before the first pass of the loop (lines 17-21)
scan_init(inp) ==
    [current_token |-> "", tokens |-> <<>>, input_chars |-> inp,
     is_in_single_quotes |-> FALSE, is_in_double_quotes |-> FALSE]

push(st, s) == [st EXCEPT !.current_token = @ \o s]

\* a slip: one escape rule for both contexts, the rule of double quotes
handle_escape_keep(st) ==
    IF st.input_chars # ""
    THEN LET next_char == First(st.input_chars)
             taken == [st EXCEPT !.input_chars = Rest(@)]
         IN  IF next_char \in {"\"", "$", "\\", BACKTICK, "\n"}
             THEN push(taken, next_char)
             ELSE push(taken, "\\" \o next_char)
    ELSE push(st, "\\")

\* a slip: one escape rule for both contexts, the rule outside quotes
handle_escape_drop(st) ==
    IF st.input_chars # ""
    THEN push([st EXCEPT !.input_chars = Rest(@)], First(st.input_chars))
    ELSE push(st, "\\")

\* handle_escape: st is the state with the backslash already taken.
handle_escape(st) ==
    IF st.input_chars # ""
    THEN LET next_char == First(st.input_chars)
             taken == [st EXCEPT !.input_chars = Rest(@)]
         IN  IF st.is_in_double_quotes
             THEN IF next_char \in {"\"", "$", "\\", BACKTICK, "\n"}
                  THEN push(taken, next_char)
                  ELSE push(taken, "\\" \o next_char)
             ELSE push(taken, next_char)
    ELSE push(st, "\\")

\* a slip: a double quote toggles its flag wherever it stands
arm_double_quote_toggle(st, ch) == [st EXCEPT !.is_in_double_quotes = ~@]

\* the arm '"' (lines 27-33)
arm_double_quote(st, ch) ==
    IF st.is_in_single_quotes THEN push(st, ch)
    ELSE [st EXCEPT !.is_in_double_quotes = ~@]

\* the arm '\'' (lines 34-40)
arm_single_quote(st, ch) ==
    IF st.is_in_double_quotes THEN push(st, ch)
    ELSE [st EXCEPT !.is_in_single_quotes = ~@]

\* a slip: whitespace ends the token inside quotes too
arm_whitespace_unquoted(st, ch) ==
    IF st.current_token # ""
    THEN [st EXCEPT !.tokens = Append(@, st.current_token), !.current_token = ""]
    ELSE st

\* a slip: unquoted whitespace ends a token even when none was begun
arm_whitespace_always(st, ch) ==
    IF st.is_in_single_quotes \/ st.is_in_double_quotes THEN push(st, ch)
    ELSE [st EXCEPT !.tokens = Append(@, st.current_token), !.current_token = ""]

\* the arm ch if ch.is_whitespace() (lines 41-48)
arm_whitespace(st, ch) ==
    IF st.is_in_single_quotes \/ st.is_in_double_quotes THEN push(st, ch)
    ELSE IF st.current_token # ""
         THEN [st EXCEPT !.tokens = Append(@, st.current_token), !.current_token = ""]
         ELSE st

\* the arm _ (lines 49-51)
arm_other(st, ch) == push(st, ch)

\* a slip: the escape arm has lost its guard
match_arm_unguarded(st, ch) ==
    IF ch = "\\" THEN "escape"
    ELSE IF ch = "\"" THEN "double_quote"
    ELSE IF ch = "'" THEN "single_quote"
    ELSE IF is_whitespace(ch) THEN "whitespace"
    ELSE "other"

\* which arm of the match takes ch, the arms tried in the order written
match_arm(st, ch) ==
    IF ch = "\\" /\ ~st.is_in_single_quotes THEN "escape"
    ELSE IF ch = "\"" THEN "double_quote"
    ELSE IF ch = "'" THEN "single_quote"
    ELSE IF is_whitespace(ch) THEN "whitespace"
    ELSE "other"

\* one pass of `while let Some(ch) = input_chars.next()` (lines 22-53)
scan_step(st) ==
    LET ch == First(st.input_chars)
        taken == [st EXCEPT !.input_chars = Rest(@)]
        arm == match_arm(st, ch)
    IN  CASE arm = "escape" -> handle_escape(taken)
          [] arm = "double_quote" -> arm_double_quote(taken, ch)
          [] arm = "single_quote" -> arm_single_quote(taken, ch)
          [] arm = "whitespace" -> arm_whitespace(taken, ch)
          [] arm = "other" -> arm_other(taken, ch)

\* a slip: the token pending at the end of the line is lost
scan_flush_none(st) == st.tokens

\* after the loop: the pending token, then parse_redirect (lines 54-59)
scan_flush(st) ==
    IF st.current_token # "" THEN Append(st.tokens, st.current_token) ELSE st.tokens

scan_finish(st) ==
    LET r == parse_redirect(scan_flush(st))
    IN  IF r.ok THEN Ok([tokens |-> r.tokens, redirect |-> r.redirect])
        ELSE Err(r.err)

RECURSIVE scan_all(_)
scan_all(st) == IF st.input_chars = "" THEN st ELSE scan_all(scan_step(st))

\* a slip: a line with a quote or a backslash in it has no redirect
tokenize_literal(inp) ==
    IF \E i \in 1..Len(inp) : Char(inp, i) \in {"'", "\"", "\\"}
    THEN Ok([tokens |-> scan_flush(scan_all(scan_init(inp))), redirect |-> None])
    ELSE scan_finish(scan_all(scan_init(inp)))

tokenize(inp) == scan_finish(scan_all(scan_init(inp)))

-----------------------------------------------------------------------------
(* The environment: directories, files, PATH and HOME *)

\* the directories there are, and the files there are or can be made
Dirs == {"/home/u", "/tmp"}
FilePaths == {"/home/u/out.txt", "/tmp/out.txt"}
\* the regular files with an executable bit
Executables == {"/usr/local/bin/ls", "/bin/ls", "/bin/echo", "/bin/cat"}
PATH == "/usr/local/bin:/bin"
HOME == "/home/u"

Absent == [exists |-> FALSE, data |-> ""]
FileOf(data) == [exists |-> TRUE, data |-> data]

\* a path as the kernel resolves it against the working directory
Absolute(dir, path) == IF First(path) = "/" THEN path ELSE dir \o "/" \o path
RECURSIVE StripTrailingSlashes(_)
StripTrailingSlashes(path) ==
    IF Len(path) > 1 /\ Last(path) = "/"
    THEN StripTrailingSlashes(SubSeq(path, 1, Len(path) - 1))
    ELSE path

\* str::split(sep)
RECURSIVE SplitOn(_, _, _)
SplitOn(s, sep, piece) ==
    IF s = "" THEN <<piece>>
    ELSE IF First(s) = sep THEN <<piece>> \o SplitOn(Rest(s), sep, "")
    ELSE SplitOn(Rest(s), sep, piece \o First(s))

\* str::trim_start_matches(c)
RECURSIVE trim_start_matches(_, _)
trim_start_matches(s, c) ==
    IF s # "" /\ First(s) = c THEN trim_start_matches(Rest(s), c) ELSE s

\* str::trim()
RECURSIVE trim_start(_)
trim_start(s) == IF s # "" /\ is_whitespace(First(s)) THEN trim_start(Rest(s)) ELSE s
RECURSIVE trim_end(_)
trim_end(s) ==
    IF s # "" /\ is_whitespace(Last(s)) THEN trim_end(SubSeq(s, 1, Len(s) - 1)) ELSE s
trim(s) == trim_end(trim_start(s))

\* [String]::join(sep)
RECURSIVE join(_, _)
join(strs, sep) ==
    IF strs = <<>> THEN ""
    ELSE IF Len(strs) = 1 THEN strs[1]
    ELSE strs[1] \o sep \o join(Tail(strs), sep)

-----------------------------------------------------------------------------
(* utils.rs *)

RECURSIVE first_executable(_, _)
first_executable(dirs, name) ==
    IF dirs = <<>> THEN None
    ELSE LET file_path == Head(dirs) \o "/" \o name
         IN  IF file_path \in Executables THEN [some |-> TRUE, val |-> file_path]
             ELSE first_executable(Tail(dirs), name)

find_executable(name) == first_executable(SplitOn(PATH, ":", ""), name)

\* What a write leaves in a file: at the end of it for a handle opened to
\* append, over what stands at the handle's offset otherwise.
write_at(data, pos, bytes) ==
    SubSeq(data, 1, pos) \o bytes \o SubSeq(data, pos + Len(bytes) + 1, Len(data))

\* An output sink is Stdout, Stderr or File(handle); io holds the files and what
\* the terminal was sent. write_bytes is one successful write_all.
StdoutSink == [kind |-> "Stdout"]
StderrSink == [kind |-> "Stderr"]
FileSink(file) == [kind |-> "File", path |-> file.path, append |-> file.append, pos |-> file.pos]

write_bytes(io, sink, bytes) ==
    CASE sink.kind = "Stdout" -> [io EXCEPT !.term_out = @ \o bytes]
      [] sink.kind = "Stderr" -> [io EXCEPT !.term_err = @ \o bytes]
      [] sink.kind = "File" ->
            [io EXCEPT !.fs[sink.path] =
                FileOf(IF sink.append THEN @.data \o bytes
                       ELSE write_at(@.data, sink.pos, bytes))]

advance(sink, n) == IF sink.kind = "File" THEN [sink EXCEPT !.pos = @ + n] ELSE sink

\* how a write_line may end: both writes done, the first one failed, or the
\* second one failed
WriteOutcomes == {"ok", "content_failed", "newline_failed"}

\* write_line(writer, content): the content, then the newline
write_line(io, sink, content, outcome) ==
    CASE outcome = "ok" ->
            write_bytes(write_bytes(io, sink, content), advance(sink, Len(content)), "\n")
      [] outcome = "content_failed" -> io
      [] outcome = "newline_failed" -> write_bytes(io, sink, content)

-----------------------------------------------------------------------------
(* io_helpers.rs *)

\* a slip: the file is opened to write without being emptied
get_write_output_keep(files, dir, redirect_filename, redirect_type) ==
    LET path == Absolute(dir, redirect_filename)
    IN  IF path \notin FilePaths THEN Err("No such file or directory (os error 2)")
        ELSE [ok |-> TRUE,
              file |-> [some |-> TRUE, path |-> path, append |-> redirect_type = APPEND,
                        pos |-> 0],
              fs |-> [files EXCEPT ![path] = FileOf(@.data)]]

\* get_write_output: the File and the files as the open leaves them, or the
\* error of the OS. APPEND makes the file when there is none; CREATE makes or
\* empties it.
get_write_output(files, dir, redirect_filename, redirect_type) ==
    LET path == Absolute(dir, redirect_filename)
    IN  IF path \notin FilePaths THEN Err("No such file or directory (os error 2)")
        ELSE [ok |-> TRUE,
              file |-> [some |-> TRUE, path |-> path, append |-> redirect_type = APPEND,
                        pos |-> 0],
              fs |-> [files EXCEPT ![path] =
                         IF redirect_type = APPEND THEN FileOf(@.data) ELSE FileOf("")]]

-----------------------------------------------------------------------------
(* builtins/mod.rs *)

BuiltinNames == {"exit", "echo", "type", "pwd", "cd"}
\* a slip: a name that the PATH holds is not taken for a builtin
is_builtin_unless_on_path(name) == name \in BuiltinNames /\ ~find_executable(name).some
is_builtin(name) == name \in BuiltinNames

\* u32::MAX's neighbours of i32
I32MaxDigits == "2147483647"
I32MinDigits == "2147483648"

RECURSIVE HornerNeg(_, _)
HornerNeg(acc, s) ==
    IF s = "" THEN acc ELSE HornerNeg(acc * 10 - DigitValue(First(s)), Rest(s))

\* str::parse::<i32>: an optional sign, then digits
parse_i32(s) ==
    LET negative == s # "" /\ First(s) = "-"
        digits == IF s # "" /\ First(s) \in {"+", "-"} THEN Rest(s) ELSE s
        n == StripZeros(digits)
        limit == IF negative THEN I32MinDigits ELSE I32MaxDigits
    IN  IF digits = "" \/ find_non_digit(digits) < Len(digits)
        THEN Err("invalid digit found in string")
        ELSE IF Len(n) > Len(limit) \/ (Len(n) = Len(limit) /\ DigitsLess(limit, n))
        THEN Err("number too large to fit in target type")
        ELSE Ok(IF negative THEN HornerNeg(0, n) ELSE Horner(0, n))

\* What a builtin does when its writes succeed: the lines it writes, each to
\* the normal ("out") or the diagnostic ("err") sink, the working directory it
\* leaves and the BuiltinFlow it returns.
Continue == [exit |-> FALSE]
Exit(code) == [exit |-> TRUE, code |-> code]
ToOut(line) == [to |-> "out", line |-> line]
ToErr(line) == [to |-> "err", line |-> line]
Outcome(flow, writes, dir) == [flow |-> flow, writes |-> writes, cwd |-> dir]

\* a slip: the argument is not looked at
builtin_exit_zero(argv, dir) == Outcome(Exit(0), <<>>, dir)

builtin_exit(argv, dir) ==
    IF Len(argv) > 1
    THEN LET code == parse_i32(argv[2])
         IN  IF code.ok THEN Outcome(Exit(code.val), <<>>, dir)
             ELSE Outcome(Continue,
                          <<ToErr("exit: " \o argv[2] \o ": numeric argument required")>>,
                          dir)
    ELSE Outcome(Exit(0), <<>>, dir)

\* a slip: the command name is echoed too
builtin_echo_all(argv, dir) ==
    Outcome(Continue, <<ToOut(join(argv, " "))>>, dir)

builtin_echo(argv, dir) ==
    Outcome(Continue, <<ToOut(join(Tail(argv), " "))>>, dir)

\* a slip: the PATH is searched before the registry is asked
builtin_type_path_first(argv, dir) ==
    IF Len(argv) # 2
    THEN Outcome(Continue, <<ToErr("type only accepts 2 arguments")>>, dir)
    ELSE LET target == argv[2]
             path == find_executable(target)
         IN  IF path.some
             THEN Outcome(Continue, <<ToOut(target \o " is " \o path.val)>>, dir)
             ELSE IF is_builtin(target)
             THEN Outcome(Continue, <<ToOut(target \o " is a shell builtin")>>, dir)
             ELSE Outcome(Continue, <<ToErr(target \o ": not found")>>, dir)

builtin_type(argv, dir) ==
    IF Len(argv) # 2
    THEN Outcome(Continue, <<ToErr("type only accepts 2 arguments")>>, dir)
    ELSE LET target == argv[2]
             path == find_executable(target)
         IN  IF is_builtin(target)
             THEN Outcome(Continue, <<ToOut(target \o " is a shell builtin")>>, dir)
             ELSE IF path.some
             THEN Outcome(Continue, <<ToOut(target \o " is " \o path.val)>>, dir)
             ELSE Outcome(Continue, <<ToErr(target \o ": not found")>>, dir)

\* current_dir_ok: whether env::current_dir() finds the directory
builtin_pwd(argv, dir, current_dir_ok) ==
    IF current_dir_ok THEN Outcome(Continue, <<ToOut(dir)>>, dir)
    ELSE Outcome(Continue, <<ToErr("Can't find current directory")>>, dir)

\* env::set_current_dir(new_dir): the directory entered, or none
set_current_dir(dir, new_dir) ==
    LET path == StripTrailingSlashes(Absolute(dir, new_dir))
    IN  IF path \in Dirs THEN [some |-> TRUE, val |-> path] ELSE None

\* a slip: the complaint carries the expanded path
builtin_cd_expanded(argv, dir) ==
    IF Len(argv) # 2
    THEN Outcome(Continue, <<ToErr("cd only accepts 1 argument")>>, dir)
    ELSE LET remainder == trim_start_matches(argv[2], "~")
             new_dir == IF First(argv[2]) = "~"
                        THEN IF remainder = "" THEN HOME
                             ELSE HOME \o "/" \o trim_start_matches(remainder, "/")
                        ELSE argv[2]
             entered == set_current_dir(dir, new_dir)
         IN  IF entered.some THEN Outcome(Continue, <<>>, entered.val)
             ELSE Outcome(Continue,
                          <<ToErr(new_dir \o ": No such file or directory")>>, dir)

builtin_cd(argv, dir) ==
    IF Len(argv) # 2
    THEN Outcome(Continue, <<ToErr("cd only accepts 1 argument")>>, dir)
    ELSE LET remainder == trim_start_matches(argv[2], "~")
             new_dir == IF First(argv[2]) = "~"
                        THEN IF remainder = "" THEN HOME
                             ELSE HOME \o "/" \o trim_start_matches(remainder, "/")
                        ELSE argv[2]
             entered == set_current_dir(dir, new_dir)
         IN  IF entered.some THEN Outcome(Continue, <<>>, entered.val)
             ELSE Outcome(Continue,
                          <<ToErr(argv[2] \o ": No such file or directory")>>, dir)

\* the registry (Builtins::new, Builtins::get)
builtin(name, argv, dir, current_dir_ok) ==
    CASE name = "exit" -> builtin_exit(argv, dir)
      [] name = "echo" -> builtin_echo(argv, dir)
      [] name = "type" -> builtin_type(argv, dir)
      [] name = "pwd" -> builtin_pwd(argv, dir, current_dir_ok)
      [] name = "cd" -> builtin_cd(argv, dir)

-----------------------------------------------------------------------------
(* Inputs *)

MaxLen == 4
MaxQuoteLen == 6
MaxWords == 2

RECURSIVE StringsOfLen(_, _)
StringsOfLen(alphabet, n) ==
    IF n = 0 THEN {""}
    ELSE {s \o c : s \in StringsOfLen(alphabet, n - 1), c \in alphabet}
StringsUpTo(alphabet, n) == UNION {StringsOfLen(alphabet, k) : k \in 0..n}

\* every kind of char the scan tells apart
ScanAlphabet == {"a", " ", "\n", "'", "\"", "\\", "$", BACKTICK}
\* the chars of quoting without escapes
QuoteAlphabet == {"a", " ", "'", "\""}

\* lines of the repository's tests and of the documentation
ExampleLines ==
    {"echo hello world", "echo \"hello world\"", "echo hi > out.txt",
     "echo foo\\ bar", "\"a\\qb\"", "echo hi >> out.txt", "echo hi 2> out.txt",
     "echo hi 99999999999> out.txt", "echo hi a> out.txt", "> out.txt",
     "echo 'a\\' b", "echo a\\", "echo \"a b", "echo 'a b", "echo hi \">\" f",
     "a\t \tb", "echo \\> f", "echo hi > f", "echo hi \\> f", "echo hi 2>> f",
     "echo hi '2>>' f", "echo hi 2\\>\\> f", "echo hi \"2>\"> f"}

TokInputs ==
    StringsUpTo(ScanAlphabet, MaxLen) \cup StringsUpTo(QuoteAlphabet, MaxQuoteLen)
        \cup ExampleLines

Words == {"echo", "hi"}
RECURSIVE SeqsOfLen(_, _)
SeqsOfLen(S, n) ==
    IF n = 0 THEN {<<>>} ELSE {Append(q, x) : q \in SeqsOfLen(S, n - 1), x \in S}
SeqsUpTo(S, n) == UNION {SeqsOfLen(S, k) : k \in 0..n}

DigitRuns ==
    {"", "0", "1", "2", "3", "007", "12", "2147483647", "4294967296",
     "99999999999", "00000000001"}
OpParts == {">", ">>", ">>>", "a>", ">a", "a", "a>>", "-1>", ">1", ""}
OpTokens == ({d \o o : d \in DigitRuns, o \in OpParts} \cup {"x2>>", "1>2>"}) \ {""}
LastTokens == {"f", ">", "2>>"}
Tails ==
    {<<>>} \cup {<<x>> : x \in OpTokens} \cup {<<x, y>> : x \in OpTokens, y \in LastTokens}
RdInputs == {p \o t : p \in SeqsUpTo(Words, MaxWords), t \in Tails}

-----------------------------------------------------------------------------
(* SpecTok: the scan of tokenize, a pass of the loop at a time *)

ScanState ==
    [current_token |-> current_token, tokens |-> tokens, input_chars |-> input_chars,
     is_in_single_quotes |-> is_in_single_quotes,
     is_in_double_quotes |-> is_in_double_quotes]

SetScan(st) ==
    /\ current_token' = st.current_token
    /\ tokens' = st.tokens
    /\ input_chars' = st.input_chars
    /\ is_in_single_quotes' = st.is_in_single_quotes
    /\ is_in_double_quotes' = st.is_in_double_quotes

RdIdle ==
    /\ rd_input = <<>>
    /\ rd_pc = "idle"
    /\ rd_result = None
    /\ rd_again = None

TokIdle ==
    /\ input = ""
    /\ input_chars = ""
    /\ current_token = ""
    /\ tokens = <<>>
    /\ is_in_single_quotes = FALSE
    /\ is_in_double_quotes = FALSE
    /\ tok_pc = "idle"
    /\ tok_result = None

ShIdle ==
    /\ sh_pc = "idle"
    /\ stdin_read = <<>>
    /\ stdin_eof = FALSE
    /\ command = ""
    /\ parts = <<>>
    /\ redirect = None
    /\ stdout_redirect_file = None
    /\ stderr_redirect_file = None
    /\ fs = [p \in FilePaths |-> Absent]
    /\ fs_initial = fs
    /\ cwd = HOME
    /\ term_out = ""
    /\ term_err = ""
    /\ events = <<>>
    /\ child = None
    /\ exit_code = None

InitTok ==
    /\ input \in TokInputs
    /\ current_token = scan_init(input).current_token
    /\ tokens = scan_init(input).tokens
    /\ input_chars = scan_init(input).input_chars
    /\ is_in_single_quotes = scan_init(input).is_in_single_quotes
    /\ is_in_double_quotes = scan_init(input).is_in_double_quotes
    /\ tok_pc = "scan"
    /\ tok_result = None
    /\ RdIdle
    /\ ShIdle

\* a pass of the loop: the arm the next char selects
ScanPass ==
    /\ SetScan(scan_step(ScanState))
    /\ UNCHANGED <<input, tok_pc, tok_result>>
    /\ UNCHANGED <<rdVars, shVars>>

NextArm(arm) ==
    /\ tok_pc = "scan"
    /\ input_chars # ""
    /\ match_arm(ScanState, First(input_chars)) = arm

TokEscape ==
    /\ NextArm("escape")
    /\ ScanPass

TokDoubleQuote ==
    /\ NextArm("double_quote")
    /\ ScanPass

TokSingleQuote ==
    /\ NextArm("single_quote")
    /\ ScanPass

TokWhitespace ==
    /\ NextArm("whitespace")
    /\ ScanPass

TokOther ==
    /\ NextArm("other")
    /\ ScanPass

\* lines 54-56
TokFlush ==
    /\ tok_pc = "scan"
    /\ input_chars = ""
    /\ tokens' = scan_flush(ScanState)
    /\ tok_pc' = "flushed"
    /\ UNCHANGED <<input, input_chars, current_token, is_in_single_quotes,
                   is_in_double_quotes, tok_result>>
    /\ UNCHANGED <<rdVars, shVars>>

\* lines 58-59
TokRedirect ==
    /\ tok_pc = "flushed"
    /\ LET r == parse_redirect(tokens)
       IN  /\ tokens' = IF r.ok THEN r.tokens ELSE tokens
           /\ tok_result' = IF r.ok THEN Ok([tokens |-> r.tokens, redirect |-> r.redirect])
                                    ELSE Err(r.err)
    /\ tok_pc' = "done"
    /\ UNCHANGED <<input, input_chars, current_token, is_in_single_quotes,
                   is_in_double_quotes>>
    /\ UNCHANGED <<rdVars, shVars>>

NextTok ==
    \/ TokEscape
    \/ TokDoubleQuote
    \/ TokSingleQuote
    \/ TokWhitespace
    \/ TokOther
    \/ TokFlush
    \/ TokRedirect

SpecTok == InitTok /\ [][NextTok]_vars

-----------------------------------------------------------------------------
(* SpecRedirect: parse_redirect on a token sequence, then on its own result *)

InitRedirect ==
    /\ rd_input \in RdInputs
    /\ rd_pc = "call"
    /\ rd_result = None
    /\ rd_again = None
    /\ TokIdle
    /\ ShIdle

RdCall ==
    /\ rd_pc = "call"
    /\ rd_result' = parse_redirect(rd_input)
    /\ rd_pc' = "returned"
    /\ UNCHANGED <<rd_input, rd_again>>
    /\ UNCHANGED <<tokVars, shVars>>

RdAgain ==
    /\ rd_pc = "returned"
    /\ rd_result.ok
    /\ rd_again' = parse_redirect(rd_result.tokens)
    /\ rd_pc' = "again"
    /\ UNCHANGED <<rd_input, rd_result>>
    /\ UNCHANGED <<tokVars, shVars>>

NextRedirect ==
    \/ RdCall
    \/ RdAgain

SpecRedirect == InitRedirect /\ [][NextRedirect]_vars

-----------------------------------------------------------------------------
(* Spec: the loop of Shell::run (shell.rs) *)

MaxLines == 2

\* the lines standard input may hold (each is read with its newline)
ShellLines ==
    {"echo hi > out.txt", "echo hi >> out.txt", "echo yo > out.txt", "echo yo >> out.txt",
     "echo hi", "echo hi 1> out.txt", "echo hi 2> out.txt", "echo hi 3> out.txt",
     "echo hi 0>> out.txt", "echo hi 2147483647> out.txt", "echo hi 99999999999> out.txt",
     "echo hi > /nodir/f", "ls > out.txt", "ls 3> out.txt", "nosuch 2>> out.txt",
     "nosuch 5> out.txt", "> out.txt", "3> out.txt", "", "  ",
     "exit", "exit 3", "exit -1", "exit 3 abc", "exit abc", "exit abc 2> out.txt",
     "exit 99999999999", "cd /tmp", "cd /nodir", "pwd", "type ls",
     "ls 2> out.txt", "nosuch", "type nosuch", "type nosuch 2> out.txt",
     "cd /nodir 2>> out.txt"}

\* what a child process may send to its standard output
ChildWrites == {"", "x\n"}

Io == [fs |-> fs, term_out |-> term_out, term_err |-> term_err]
SetIo(io) ==
    /\ fs' = io.fs
    /\ term_out' = io.term_out
    /\ term_err' = io.term_err
\* eprintln!
eprintln(io, message) == [io EXCEPT !.term_err = @ \o message \o "\n"]
Event(op, arg) == [op |-> op, arg |-> arg]

\* the end of a pass of the loop body: its locals are dropped, the redirect
\* files with them
DropLocals ==
    /\ stdout_redirect_file' = None
    /\ stderr_redirect_file' = None
\* a slip: the files are kept over the `continue`
NextCycle_leak ==
    /\ sh_pc' = "prompt"
    /\ UNCHANGED <<stdout_redirect_file, stderr_redirect_file>>

\* `continue`, and the end of the loop body
NextCycle ==
    /\ sh_pc' = "prompt"
    /\ DropLocals
\* `?` on an Err: run returns it
ReturnErr ==
    /\ sh_pc' = "returned"
    /\ DropLocals

InitShell ==
    /\ sh_pc = "prompt"
    /\ stdin_read = <<>>
    /\ stdin_eof = FALSE
    /\ command = ""
    /\ parts = <<>>
    /\ redirect = None
    /\ stdout_redirect_file = None
    /\ stderr_redirect_file = None
    /\ \E f \in {Absent, FileOf(""), FileOf("old\n")} :
          fs = [p \in FilePaths |-> IF p = "/home/u/out.txt" THEN f ELSE Absent]
    /\ fs_initial = fs
    /\ cwd = HOME
    /\ term_out = ""
    /\ term_err = ""
    /\ events = <<>>
    /\ child = None
    /\ exit_code = None
    /\ TokIdle
    /\ RdIdle

\* lines 23-24: the prompt is printed and flushed
Prompt ==
    /\ sh_pc = "prompt"
    /\ sh_pc' = "read"
    /\ term_out' = "$ "
    /\ term_err' = ""
    /\ events' = <<>>
    /\ child' = None
    /\ command' = ""
    /\ parts' = <<>>
    /\ redirect' = None
    /\ UNCHANGED <<stdin_read, stdin_eof, stdout_redirect_file, stderr_redirect_file, fs,
                   fs_initial, cwd, exit_code>>
    /\ UNCHANGED <<tokVars, rdVars>>

\* line 24: the flush fails
PromptFails ==
    /\ sh_pc = "prompt"
    /\ ReturnErr
    /\ term_out' = ""
    /\ term_err' = ""
    /\ events' = <<>>
    /\ child' = None
    /\ command' = ""
    /\ parts' = <<>>
    /\ redirect' = None
    /\ UNCHANGED <<stdin_read, stdin_eof, fs, fs_initial, cwd, exit_code>>
    /\ UNCHANGED <<tokVars, rdVars>>

\* a slip: the end of the input ends the loop
ReadEof_stop ==
    /\ sh_pc = "read"
    /\ stdin_eof' = TRUE
    /\ sh_pc' = "exited"
    /\ UNCHANGED <<stdin_read, command, parts, redirect, fs, fs_initial, cwd, term_out,
                   term_err, events, child, exit_code, stdout_redirect_file,
                   stderr_redirect_file>>
    /\ UNCHANGED <<tokVars, rdVars>>

\* lines 27-29: read_line reads 0 bytes
ReadEof ==
    /\ sh_pc = "read"
    /\ stdin_eof' = TRUE
    /\ NextCycle
    /\ UNCHANGED <<stdin_read, command, parts, redirect, fs, fs_initial, cwd, term_out,
                   term_err, events, child, exit_code>>
    /\ UNCHANGED <<tokVars, rdVars>>

\* line 27: read_line fails
ReadFails ==
    /\ sh_pc = "read"
    /\ ReturnErr
    /\ UNCHANGED <<stdin_read, stdin_eof, command, parts, redirect, fs, fs_initial, cwd,
                   term_out, term_err, events, child, exit_code>>
    /\ UNCHANGED <<tokVars, rdVars>>

\* lines 26-46: a line, one of `lines`, is read, trimmed and tokenized
ReadFrom(lines) ==
    /\ ~stdin_eof
    /\ Len(stdin_read) < MaxLines
    /\ \E line \in lines :
          LET trimmed == trim(line \o "\n")
              result == tokenize(trimmed)
          IN  /\ stdin_read' = Append(stdin_read, line)
              /\ command' = trimmed
              /\ IF trimmed = ""
                 THEN /\ NextCycle
                      /\ UNCHANGED <<parts, redirect, term_err>>
                 ELSE IF ~result.ok
                 THEN /\ term_err' = term_err \o result.err \o "\n"
                      /\ NextCycle
                      /\ UNCHANGED <<parts, redirect>>
                 ELSE /\ parts' = result.val.tokens
                      /\ redirect' = result.val.redirect
                      /\ UNCHANGED term_err
                      /\ IF result.val.tokens = <<>>
                         THEN NextCycle
                         ELSE /\ sh_pc' = "resolve"
                              /\ UNCHANGED <<stdout_redirect_file, stderr_redirect_file>>
    /\ UNCHANGED <<stdin_eof, fs, fs_initial, cwd, term_out, events, child, exit_code>>
    /\ UNCHANGED <<tokVars, rdVars>>

ReadLine ==
    /\ sh_pc = "read"
    /\ ReadFrom(ShellLines)

\* a slip: every descriptor number is taken for standard output
resolve_redirect_any(files, dir, spec) ==
    IF ~spec.some
    THEN [ok |-> TRUE, stdout_redirect_file |-> None, stderr_redirect_file |-> None,
          fs |-> files]
    ELSE LET opened == get_write_output(files, dir, spec.target, spec.redirect_type)
         IN  IF opened.ok
             THEN [ok |-> TRUE,
                   stdout_redirect_file |-> IF spec.fd # 2 THEN opened.file ELSE None,
                   stderr_redirect_file |-> IF spec.fd = 2 THEN opened.file ELSE None,
                   fs |-> opened.fs]
             ELSE Err("failed to open " \o spec.target \o ": " \o opened.err)

\* lines 48-70, the match on the redirect: the two files and the files as the
\* open leaves them, or the message of the arm that ends the pass
resolve_redirect(files, dir, spec) ==
    IF ~spec.some
    THEN [ok |-> TRUE, stdout_redirect_file |-> None, stderr_redirect_file |-> None,
          fs |-> files]
    ELSE IF spec.fd \in {1, 2}
    THEN LET opened == get_write_output(files, dir, spec.target, spec.redirect_type)
         IN  IF opened.ok
             THEN [ok |-> TRUE,
                   stdout_redirect_file |-> IF spec.fd = 1 THEN opened.file ELSE None,
                   stderr_redirect_file |-> IF spec.fd = 2 THEN opened.file ELSE None,
                   fs |-> opened.fs]
             ELSE Err("failed to open " \o spec.target \o ": " \o opened.err)
    ELSE Err("redirect for fd " \o ToString(spec.fd) \o " is not supported")

\* lines 48-70: the redirect is resolved into the two files
ResolveRedirect ==
    /\ sh_pc = "resolve"
    /\ LET resolved == resolve_redirect(fs, cwd, redirect)
       IN  IF resolved.ok
           THEN /\ stdout_redirect_file' = resolved.stdout_redirect_file
                /\ stderr_redirect_file' = resolved.stderr_redirect_file
                /\ fs' = resolved.fs
                /\ events' = IF redirect.some
                             THEN Append(events,
                                         Event("open", Absolute(cwd, redirect.target)))
                             ELSE events
                /\ sh_pc' = "dispatch"
                /\ UNCHANGED term_err
           ELSE /\ term_err' = term_err \o resolved.err \o "\n"
                /\ NextCycle
                /\ UNCHANGED <<fs, events>>
    /\ UNCHANGED <<stdin_read, stdin_eof, command, parts, redirect, fs_initial, cwd, term_out,
                   child, exit_code>>
    /\ UNCHANGED <<tokVars, rdVars>>

\* prepare_builtin_output (lines 117-130), when try_clone succeeds
prepare_builtin_output(file, fallback) ==
    IF file.some THEN FileSink(file) ELSE fallback

\* lines 74-95: the command is a builtin
DispatchBuiltin ==
    /\ sh_pc = "dispatch"
    /\ is_builtin(parts[1])
    /\ \E try_clone_ok \in IF stdout_redirect_file.some \/ stderr_redirect_file.some
                           THEN BOOLEAN ELSE {TRUE},
          current_dir_ok \in IF parts[1] = "pwd" THEN BOOLEAN ELSE {TRUE},
          outcome \in WriteOutcomes :
          LET stdout_writer == prepare_builtin_output(stdout_redirect_file, StdoutSink)
              stderr_writer == prepare_builtin_output(stderr_redirect_file, StderrSink)
              done == builtin(parts[1], parts, cwd, current_dir_ok)
              written ==
                  IF done.writes = <<>> THEN Io
                  ELSE write_line(Io,
                                  IF done.writes[1].to = "out" THEN stdout_writer
                                  ELSE stderr_writer,
                                  done.writes[1].line, outcome)
          IN  IF ~try_clone_ok
              THEN /\ outcome = "ok"
                   /\ current_dir_ok
                   /\ ReturnErr
                   /\ UNCHANGED <<fs, term_out, term_err, cwd, events, exit_code>>
              ELSE /\ done.writes = <<>> => outcome = "ok"
                   /\ events' = Append(events, Event("builtin", parts[1]))
                   /\ SetIo(written)
                   /\ cwd' = done.cwd
                   /\ IF outcome # "ok"
                      THEN /\ ReturnErr
                           /\ UNCHANGED exit_code
                      ELSE IF done.flow.exit
                      THEN /\ sh_pc' = "exited"
                           /\ exit_code' = [some |-> TRUE, val |-> done.flow.code]
                           /\ UNCHANGED <<stdout_redirect_file, stderr_redirect_file>>
                      ELSE /\ NextCycle
                           /\ UNCHANGED exit_code
    /\ UNCHANGED <<stdin_read, stdin_eof, command, parts, redirect, fs_initial, child>>
    /\ UNCHANGED <<tokVars, rdVars>>

\* lines 97-105: neither a builtin nor on the PATH
DispatchNotFound ==
    /\ sh_pc = "dispatch"
    /\ ~is_builtin(parts[1])
    /\ ~find_executable(parts[1]).some
    /\ \E try_clone_ok \in IF stderr_redirect_file.some THEN BOOLEAN ELSE {TRUE},
          outcome \in WriteOutcomes :
          LET writer == prepare_builtin_output(stderr_redirect_file, StderrSink)
          IN  IF ~try_clone_ok
              THEN /\ outcome = "ok"
                   /\ ReturnErr
                   /\ UNCHANGED <<fs, term_out, term_err, events>>
              ELSE /\ SetIo(write_line(Io, writer, parts[1] \o ": command not found",
                                       outcome))
                   /\ events' = Append(events, Event("not_found", parts[1]))
                   /\ IF outcome = "ok" THEN NextCycle ELSE ReturnErr
    /\ UNCHANGED <<stdin_read, stdin_eof, command, parts, redirect, fs_initial, cwd, child,
                   exit_code>>
    /\ UNCHANGED <<tokVars, rdVars>>

\* what command.spawn() reports when the file found cannot be run
SpawnError == "Permission denied (os error 13)"

\* lines 107-113 and run_external (132-151) up to the spawn: the two files
\* are moved into the child's standard output and standard error
DispatchExternal ==
    /\ sh_pc = "dispatch"
    /\ ~is_builtin(parts[1])
    /\ find_executable(parts[1]).some
    /\ \E spawn_ok \in BOOLEAN :
          IF spawn_ok
          THEN /\ child' = [some |-> TRUE, program |-> parts[1], args |-> Tail(parts),
                            stdout |-> prepare_builtin_output(stdout_redirect_file, StdoutSink),
                            stderr |-> prepare_builtin_output(stderr_redirect_file, StderrSink)]
               /\ events' = Append(events, Event("spawn", parts[1]))
               /\ sh_pc' = "wait"
               /\ DropLocals
               /\ UNCHANGED term_err
          ELSE /\ term_err' = term_err \o SpawnError \o "\n"
               /\ events' = Append(events, Event("spawn_failed", parts[1]))
               /\ NextCycle
               /\ UNCHANGED child
    /\ UNCHANGED <<stdin_read, stdin_eof, command, parts, redirect, fs, fs_initial, cwd,
                   term_out, exit_code>>
    /\ UNCHANGED <<tokVars, rdVars>>

\* lines 149-150: the child runs to its end, child.wait() returns, and
\* run_external returns: its Command and Child are dropped, and with them
\* the files they were given
ChildExits ==
    /\ sh_pc = "wait"
    /\ \E bytes \in ChildWrites : SetIo(write_bytes(Io, child.stdout, bytes))
    /\ events' = Append(events, Event("wait", child.program))
    /\ child' = None
    /\ NextCycle
    /\ UNCHANGED <<stdin_read, stdin_eof, command, parts, redirect, fs_initial, cwd,
                   exit_code>>
    /\ UNCHANGED <<tokVars, rdVars>>

Next ==
    \/ Prompt
    \/ PromptFails
    \/ ReadEof
    \/ ReadFails
    \/ ReadLine
    \/ ResolveRedirect
    \/ DispatchBuiltin
    \/ DispatchNotFound
    \/ DispatchExternal
    \/ ChildExits

Spec == InitShell /\ [][Next]_vars

\* SpecLive: the loop over a few lines, one for each way a pass can go, for
\* what it does in the long run.
LiveLines ==
    {"echo hi > out.txt", "echo hi 3> out.txt", "nosuch", "ls > out.txt", "exit 3", ""}

ReadLineLive ==
    /\ sh_pc = "read"
    /\ ReadFrom(LiveLines)

NextLive ==
    \/ Prompt
    \/ PromptFails
    \/ ReadEof
    \/ ReadFails
    \/ ReadLineLive
    \/ ResolveRedirect
    \/ DispatchBuiltin
    \/ DispatchNotFound
    \/ DispatchExternal
    \/ ChildExits

\* The loop is sequential code: at the prompt it prints and flushes, at the
\* read it reads; each of the two either succeeds or fails, and is not put off
\* for ever.
SpecLive ==
    /\ InitShell
    /\ [][NextLive]_vars
    /\ WF_vars(Prompt \/ PromptFails)
    /\ WF_vars(ReadEof \/ ReadFails \/ ReadLineLive)

-----------------------------------------------------------------------------
(* SpecBuiltin: the builtins, called by the loop on any token list. The loop
   stands where lines 48-70 leave it, with the redirect of the line resolved;
   the line that led there is not kept. *)

MaxArgs == 2

BuiltinWords == {"hi", "a b", "ls", "echo", "nosuch", "/tmp", "/nodir", "~", "~/nodir", "~~"}
BuiltinCalls == {<<name>> \o args : name \in BuiltinNames, args \in SeqsUpTo(BuiltinWords, MaxArgs)}
BuiltinRedirects ==
    {None} \cup {Redirect(fd, "out.txt", type) : fd \in {1, 2}, type \in {CREATE, APPEND}}

InitBuiltin ==
    \E argv \in BuiltinCalls, dir \in Dirs, spec \in BuiltinRedirects,
       before \in {Absent, FileOf("old\n")} :
        LET files == [p \in FilePaths |-> IF p = Absolute(dir, "out.txt") THEN before
                                          ELSE Absent]
            resolved == resolve_redirect(files, dir, spec)
        IN  /\ sh_pc = "dispatch"
            /\ stdin_read = <<>>
            /\ stdin_eof = FALSE
            /\ command = ""
            /\ parts = argv
            /\ redirect = spec
            /\ stdout_redirect_file = resolved.stdout_redirect_file
            /\ stderr_redirect_file = resolved.stderr_redirect_file
            /\ fs = resolved.fs
            /\ fs_initial = files
            /\ cwd = dir
            /\ term_out = "$ "
            /\ term_err = ""
            /\ events = IF spec.some THEN <<Event("open", Absolute(dir, "out.txt"))>>
                        ELSE <<>>
            /\ child = None
            /\ exit_code = None
            /\ TokIdle
            /\ RdIdle

NextBuiltin ==
    \/ DispatchBuiltin
    \/ Prompt
    \/ ReadEof

SpecBuiltin == InitBuiltin /\ [][NextBuiltin]_vars

-----------------------------------------------------------------------------
(* SpecMain: the shell of main.rs, the one main() runs. main.rs declares no
   module, so its own tokenize, get_write_output and Shell are what the binary
   holds. Its one redirect file is kept in stdout_redirect_file;
   stderr_redirect_file stays None. *)

\* main.rs:74-104, the tail of tokenize: any token ending in `>` is an
\* operator, what precedes the `>` is parsed as an i32
main_parse_redirect(toks) ==
    IF Len(toks) < 2 THEN [ok |-> TRUE, tokens |-> toks, redirect |-> None]
    ELSE LET op_token == toks[Len(toks) - 1]
             fd_str == SubSeq(op_token, 1, Len(op_token) - 1)
             kept == SubSeq(toks, 1, Len(toks) - 2)
             found(fd) == [ok |-> TRUE, tokens |-> kept,
                           redirect |-> [some |-> TRUE, fd |-> fd,
                                         target |-> toks[Len(toks)]]]
         IN  IF op_token = ">" THEN found(1)
             ELSE IF Last(op_token) = ">"
             THEN IF fd_str = "" THEN found(1)
                  ELSE LET fd == parse_i32(fd_str)
                       IN  IF fd.ok THEN found(fd.val)
                           ELSE Err("invalid file descriptor: " \o fd_str)
             ELSE [ok |-> TRUE, tokens |-> toks, redirect |-> None]

\* main.rs:14-107: the same scan, then the tail above
main_tokenize(inp) ==
    LET r == main_parse_redirect(scan_flush(scan_all(scan_init(inp))))
    IN  IF r.ok THEN Ok([tokens |-> r.tokens, redirect |-> r.redirect]) ELSE Err(r.err)

\* main.rs:109-115: always create and truncate
main_get_write_output(files, dir, redirect_filename) ==
    get_write_output(files, dir, redirect_filename, CREATE)

\* main.rs:191-206, the match on the redirect
main_resolve_redirect(files, dir, spec) ==
    IF ~spec.some THEN [ok |-> TRUE, redirect_file |-> None, fs |-> files]
    ELSE IF spec.fd # 1
    THEN Err("redirect for fd " \o ToString(spec.fd) \o " is not supported")
    ELSE LET opened == main_get_write_output(files, dir, spec.target)
         IN  IF opened.ok
             THEN [ok |-> TRUE, redirect_file |-> opened.file, fs |-> opened.fs]
             ELSE Err("failed to open " \o spec.target \o ": " \o opened.err)

\* main.rs:250-352: the five builtins take one writer, and every line they
\* write, result or complaint, goes to it
main_builtin(name, argv, dir, current_dir_ok) ==
    LET done == builtin(name, argv, dir, current_dir_ok)
    IN  [done EXCEPT !.writes = [i \in DOMAIN done.writes |-> ToOut(done.writes[i].line)]]

MainLines ==
    {"echo hi > out.txt", "echo hi >> out.txt", "echo hi 1> out.txt", "echo hi 1>> out.txt",
     "echo hi 2> out.txt", "echo hi 2>> out.txt", "echo hi", "echo hi 3> out.txt",
     "echo hi +1> out.txt", "echo hi a> out.txt", "echo hi > /nodir/f",
     "ls > out.txt", "ls 2> out.txt", "nosuch > out.txt", "nosuch 2> out.txt", "nosuch",
     "> out.txt", "", "exit", "exit abc > out.txt", "cd /nodir", "cd /tmp", "pwd",
     "type nosuch > out.txt"}

\* main.rs:169-189
MainReadLine ==
    /\ sh_pc = "read"
    /\ ~stdin_eof
    /\ Len(stdin_read) < MaxLines
    /\ \E line \in MainLines :
          LET trimmed == trim(line \o "\n")
              result == main_tokenize(trimmed)
          IN  /\ stdin_read' = Append(stdin_read, line)
              /\ command' = trimmed
              /\ IF trimmed = ""
                 THEN /\ NextCycle
                      /\ UNCHANGED <<parts, redirect, term_err>>
                 ELSE IF ~result.ok
                 THEN /\ term_err' = term_err \o result.err \o "\n"
                      /\ NextCycle
                      /\ UNCHANGED <<parts, redirect>>
                 ELSE /\ parts' = result.val.tokens
                      /\ redirect' = result.val.redirect
                      /\ UNCHANGED term_err
                      /\ IF result.val.tokens = <<>>
                         THEN NextCycle
                         ELSE /\ sh_pc' = "resolve"
                              /\ UNCHANGED <<stdout_redirect_file, stderr_redirect_file>>
    /\ UNCHANGED <<stdin_eof, fs, fs_initial, cwd, term_out, events, child, exit_code>>
    /\ UNCHANGED <<tokVars, rdVars>>

\* main.rs:191-206
MainResolveRedirect ==
    /\ sh_pc = "resolve"
    /\ LET resolved == main_resolve_redirect(fs, cwd, redirect)
       IN  IF resolved.ok
           THEN /\ stdout_redirect_file' = resolved.redirect_file
                /\ fs' = resolved.fs
                /\ events' = IF redirect.some
                             THEN Append(events,
                                         Event("open", Absolute(cwd, redirect.target)))
                             ELSE events
                /\ sh_pc' = "dispatch"
                /\ UNCHANGED <<term_err, stderr_redirect_file>>
           ELSE /\ term_err' = term_err \o resolved.err \o "\n"
                /\ NextCycle
                /\ UNCHANGED <<fs, events>>
    /\ UNCHANGED <<stdin_read, stdin_eof, command, parts, redirect, fs_initial, cwd, term_out,
                   child, exit_code>>
    /\ UNCHANGED <<tokVars, rdVars>>

\* main.rs:210-218
MainDispatchBuiltin ==
    /\ sh_pc = "dispatch"
    /\ is_builtin(parts[1])
    /\ \E try_clone_ok \in IF stdout_redirect_file.some THEN BOOLEAN ELSE {TRUE},
          current_dir_ok \in IF parts[1] = "pwd" THEN BOOLEAN ELSE {TRUE},
          outcome \in WriteOutcomes :
          LET writer == prepare_builtin_output(stdout_redirect_file, StdoutSink)
              done == main_builtin(parts[1], parts, cwd, current_dir_ok)
              written == IF done.writes = <<>> THEN Io
                         ELSE write_line(Io, writer, done.writes[1].line, outcome)
          IN  IF ~try_clone_ok
              THEN /\ outcome = "ok"
                   /\ current_dir_ok
                   /\ ReturnErr
                   /\ UNCHANGED <<fs, term_out, term_err, cwd, events, exit_code>>
              ELSE /\ done.writes = <<>> => outcome = "ok"
                   /\ events' = Append(events, Event("builtin", parts[1]))
                   /\ SetIo(written)
                   /\ cwd' = done.cwd
                   /\ IF outcome # "ok"
                      THEN /\ ReturnErr
                           /\ UNCHANGED exit_code
                      ELSE IF done.flow.exit
                      THEN /\ sh_pc' = "exited"
                           /\ exit_code' = [some |-> TRUE, val |-> done.flow.code]
                           /\ UNCHANGED <<stdout_redirect_file, stderr_redirect_file>>
                      ELSE /\ NextCycle
                           /\ UNCHANGED exit_code
    /\ UNCHANGED <<stdin_read, stdin_eof, command, parts, redirect, fs_initial, child>>
    /\ UNCHANGED <<tokVars, rdVars>>

\* main.rs:220-225: the complaint goes to the one writer
MainDispatchNotFound ==
    /\ sh_pc = "dispatch"
    /\ ~is_builtin(parts[1])
    /\ ~find_executable(parts[1]).some
    /\ \E try_clone_ok \in IF stdout_redirect_file.some THEN BOOLEAN ELSE {TRUE},
          outcome \in WriteOutcomes :
          LET writer == prepare_builtin_output(stdout_redirect_file, StdoutSink)
          IN  IF ~try_clone_ok
              THEN /\ outcome = "ok"
                   /\ ReturnErr
                   /\ UNCHANGED <<fs, term_out, term_err, events>>
              ELSE /\ SetIo(write_line(Io, writer, parts[1] \o ": command not found",
                                       outcome))
                   /\ events' = Append(events, Event("not_found", parts[1]))
                   /\ IF outcome = "ok" THEN NextCycle ELSE ReturnErr
    /\ UNCHANGED <<stdin_read, stdin_eof, command, parts, redirect, fs_initial, cwd, child,
                   exit_code>>
    /\ UNCHANGED <<tokVars, rdVars>>

\* main.rs:227-229 and run_external (354-369) up to the spawn
MainDispatchExternal ==
    /\ sh_pc = "dispatch"
    /\ ~is_builtin(parts[1])
    /\ find_executable(parts[1]).some
    /\ \E spawn_ok \in BOOLEAN :
          IF spawn_ok
          THEN /\ child' = [some |-> TRUE, program |-> parts[1], args |-> Tail(parts),
                            stdout |-> prepare_builtin_output(stdout_redirect_file, StdoutSink),
                            stderr |-> StderrSink]
               /\ events' = Append(events, Event("spawn", parts[1]))
               /\ sh_pc' = "wait"
               /\ DropLocals
               /\ UNCHANGED term_err
          ELSE /\ term_err' = term_err \o SpawnError \o "\n"
               /\ events' = Append(events, Event("spawn_failed", parts[1]))
               /\ NextCycle
               /\ UNCHANGED child
    /\ UNCHANGED <<stdin_read, stdin_eof, command, parts, redirect, fs, fs_initial, cwd,
                   term_out, exit_code>>
    /\ UNCHANGED <<tokVars, rdVars>>

NextMain ==
    \/ Prompt
    \/ PromptFails
    \/ ReadEof
    \/ ReadFails
    \/ MainReadLine
    \/ MainResolveRedirect
    \/ MainDispatchBuiltin
    \/ MainDispatchNotFound
    \/ MainDispatchExternal
    \/ ChildExits

SpecMain == InitShell /\ [][NextMain]_vars

-----------------------------------------------------------------------------
(* What the claims speak of, read off the tokens alone *)

AllDigits(s) == \A i \in 1..Len(s) : Char(s, i) \in DigitChars

\* <optional digits> followed by exactly '>' or '>>'
IsRedirectOp(tok) ==
    \E k \in 0..Len(tok) :
        /\ AllDigits(SubSeq(tok, 1, k))
        /\ SubSeq(tok, k + 1, Len(tok)) \in {">", ">>"}

\* the operator a token ends in, the longer one first
OpSuffix(tok) ==
    IF Len(tok) >= 2 /\ SubSeq(tok, Len(tok) - 1, Len(tok)) = ">>" THEN ">>"
    ELSE IF Len(tok) >= 1 /\ Last(tok) = ">" THEN ">"
    ELSE ""
OpPrefix(tok) == SubSeq(tok, 1, Len(tok) - Len(OpSuffix(tok)))

\* ends in '>' or '>>' with a non-digit before the operator
IsMalformedOp(tok) == OpSuffix(tok) # "" /\ ~AllDigits(OpPrefix(tok))

\* the number a digit run writes
RECURSIVE DecimalValue(_)
DecimalValue(s) ==
    IF s = "" THEN 0
    ELSE DecimalValue(SubSeq(s, 1, Len(s) - 1)) * 10 + DigitValue(Last(s))

IsPrefixOf(p, s) == Len(p) <= Len(s) /\ SubSeq(s, 1, Len(p)) = p

RdOp == rd_input[Len(rd_input) - 1]
RdHasOp == Len(rd_input) >= 2 /\ IsRedirectOp(RdOp)
RdDescriptor ==
    /\ rd_result.ok
    /\ rd_result.tokens = SubSeq(rd_input, 1, Len(rd_input) - 2)
    /\ rd_result.redirect.some
    /\ rd_result.redirect.target = rd_input[Len(rd_input)]
    /\ rd_result.redirect.redirect_type = IF OpSuffix(RdOp) = ">>" THEN APPEND ELSE CREATE
    /\ rd_result.redirect.fd =
           IF OpPrefix(RdOp) = "" THEN 1 ELSE DecimalValue(OpPrefix(RdOp))

-----------------------------------------------------------------------------
(* Claims on the redirect extractor, under SpecRedirect *)

\* C1 as written: for every token sequence of length >= 2 whose second-to-last
\* token is <optional digits> followed by '>' or '>>', parse_redirect removes
\* exactly the last two tokens and returns the descriptor with the last token as
\* path, the digits' value (1 without digits) as fd, CREATE for '>' and APPEND
\* for '>>'.
C1_Original == (rd_pc # "call" /\ RdHasOp) => RdDescriptor

\* C1 amended: the same, for the digit runs whose value fits u32 (is at most
\* 4294967295); for a longer run parse_redirect fails with "invalid file
\* descriptor: <the digits>".
C1_Extract ==
    (rd_pc # "call" /\ RdHasOp) =>
        IF OverflowsU32(OpPrefix(RdOp)) /\ OpPrefix(RdOp) # ""
        THEN rd_result = Err("invalid file descriptor: " \o OpPrefix(RdOp))
        ELSE RdDescriptor

C1_Witness ==
    /\ rd_pc = "returned"
    /\ rd_input = <<"echo", "hi", "007>>", "f">>
    /\ rd_result.tokens = <<"echo", "hi">>
    /\ rd_result.redirect = Redirect(7, "f", APPEND)

\* C8 as written: whenever the second-to-last token ends in '>' or '>>' and a
\* non-digit stands before the operator, parse_redirect fails with "invalid file
\* descriptor: <offending substring>".
C8_Original ==
    (rd_pc # "call" /\ Len(rd_input) >= 2 /\ IsMalformedOp(RdOp)) =>
        /\ ~rd_result.ok
        /\ IsPrefixOf("invalid file descriptor: ", rd_result.err)

\* C9: with fewer than two tokens, or a second-to-last token that is not
\* <optional digits> followed by '>' or '>>', parse_redirect returns no
\* descriptor and leaves the tokens as they were; a second call on the result
\* changes nothing.
C9_CleanUntouched ==
    (rd_pc # "call" /\ ~RdHasOp) =>
        /\ rd_result = [ok |-> TRUE, tokens |-> rd_input, redirect |-> None]
        /\ rd_pc = "again" => rd_again = rd_result

C9_Witness ==
    /\ rd_pc = "again"
    /\ rd_input = <<"echo", "hi", "1a>", "f">>
    /\ rd_again.tokens = rd_input
    /\ ~rd_again.redirect.some

-----------------------------------------------------------------------------
(* Claims on the tokenizer, under SpecTok *)

NoQuote == ~is_in_single_quotes /\ ~is_in_double_quotes
TokensOf(r) == r.val.tokens
SameFlags ==
    /\ is_in_single_quotes' = is_in_single_quotes
    /\ is_in_double_quotes' = is_in_double_quotes
\* a pass took n chars and added s to the current token, and nothing else
Appended(n, s) ==
    /\ input_chars' = SubSeq(input_chars, n + 1, Len(input_chars))
    /\ current_token' = current_token \o s
    /\ tokens' = tokens
    /\ SameFlags
    /\ tok_pc' = "scan"

\* C3: outside quotes a backslash followed by a char c adds exactly c to the
\* current token: the token goes on, no quote flag changes and c starts no
\* escape of its own, whatever c is; so `echo foo\ bar` is echo, `foo bar`.
C3_UnquotedEscape ==
    /\ [][(tok_pc = "scan" /\ NoQuote /\ Len(input_chars) >= 2
             /\ First(input_chars) = "\\")
            => Appended(2, Char(input_chars, 2))]_vars
    /\ [](tok_pc = "done" /\ input = "echo foo\\ bar"
            => tok_result = Ok([tokens |-> <<"echo", "foo bar">>, redirect |-> None]))

C3_Witness ==
    /\ tok_pc = "done"
    /\ input = "echo foo\\ bar"
    /\ TokensOf(tok_result) = <<"echo", "foo bar">>

\* C4: inside double quotes a backslash followed by a double quote, $, a
\* backslash, a backtick or a newline adds only that char (the quote stays
\* open); followed by any other char it adds the backslash and the char; so
\* `"a\qb"` is the token a\qb.
C4_DoubleQuoteEscape ==
    /\ [][(tok_pc = "scan" /\ is_in_double_quotes /\ Len(input_chars) >= 2
             /\ First(input_chars) = "\\")
            => IF Char(input_chars, 2) \in {"\"", "$", "\\", BACKTICK, "\n"}
               THEN Appended(2, Char(input_chars, 2))
               ELSE Appended(2, "\\" \o Char(input_chars, 2))]_vars
    /\ [](tok_pc = "done" /\ input = "\"a\\qb\""
            => tok_result = Ok([tokens |-> <<"a\\qb">>, redirect |-> None]))

C4_Witness ==
    /\ tok_pc = "done"
    /\ input = "\"a\\qb\""
    /\ TokensOf(tok_result) = <<"a\\qb">>

\* The quoting of a line without backslashes, read off the line alone: its
\* chars without the quote delimiters, each with whether it stands between
\* delimiters. open is the delimiter that is open, or "".
RECURSIVE RefMark(_, _)
RefMark(s, open) ==
    IF s = "" THEN <<>>
    ELSE LET c == First(s)
         IN  IF open = ""
             THEN IF c \in {"'", "\""} THEN RefMark(Rest(s), c)
                  ELSE <<[c |-> c, quoted |-> FALSE]>> \o RefMark(Rest(s), "")
             ELSE IF c = open THEN RefMark(Rest(s), "")
                  ELSE <<[c |-> c, quoted |-> TRUE]>> \o RefMark(Rest(s), open)

\* the delimiter left open at the end of the line, or ""
RECURSIVE RefOpen(_, _)
RefOpen(s, open) ==
    IF s = "" THEN open
    ELSE IF open = "" THEN RefOpen(Rest(s), IF First(s) \in {"'", "\""} THEN First(s) ELSE "")
    ELSE RefOpen(Rest(s), IF First(s) = open THEN "" ELSE open)

IsGap(m) == ~m.quoted /\ m.c \in WhitespaceChars

\* the words: the longest runs of marked chars with no unquoted whitespace
RECURSIVE RefWords(_, _)
RefWords(marks, word) ==
    LET done == IF word = "" THEN <<>> ELSE <<word>>
    IN  IF marks = <<>> THEN done
        ELSE IF IsGap(Head(marks)) THEN done \o RefWords(Tail(marks), "")
        ELSE RefWords(Tail(marks), word \o Head(marks).c)

HasBackslash(s) == \E i \in 1..Len(s) : Char(s, i) = "\\"

\* C5: a whitespace char ends the current token only when neither quote flag
\* is set, and is added to the token when one is; so on a line without
\* backslashes the tokens are the runs of chars with no unquoted whitespace
\* between them (`echo "hello world"` is two tokens, `echo hello world` three).
C5_WordSplitting ==
    /\ [][(tok_pc = "scan" /\ input_chars # "" /\ First(input_chars) \in WhitespaceChars)
            => IF NoQuote
               THEN /\ current_token' = ""
                    /\ tokens' = IF current_token = "" THEN tokens
                                  ELSE Append(tokens, current_token)
                    /\ input_chars' = Rest(input_chars)
                    /\ SameFlags
               ELSE Appended(1, First(input_chars))]_vars
    /\ [](tok_pc = "flushed" /\ ~HasBackslash(input)
            => tokens = RefWords(RefMark(input, ""), ""))
    /\ [](tok_pc = "done" /\ input = "echo \"hello world\""
            => TokensOf(tok_result) = <<"echo", "hello world">>)
    /\ [](tok_pc = "done" /\ input = "echo hello world"
            => TokensOf(tok_result) = <<"echo", "hello", "world">>)

C5_Witness ==
    /\ tok_pc = "done"
    /\ input = "echo \"hello world\""
    /\ TokensOf(tok_result) = <<"echo", "hello world">>

\* the line with the delimiters removed and the whitespace normalized: no
\* unquoted whitespace at either end, one space for each run of it
RECURSIVE DropGaps(_)
DropGaps(marks) ==
    IF marks # <<>> /\ IsGap(Head(marks)) THEN DropGaps(Tail(marks)) ELSE marks

RECURSIVE RefNormal(_)
RefNormal(marks) ==
    IF marks = <<>> THEN ""
    ELSE IF IsGap(Head(marks))
         THEN IF DropGaps(marks) = <<>> THEN "" ELSE " " \o RefNormal(DropGaps(marks))
         ELSE Head(marks).c \o RefNormal(Tail(marks))

RECURSIVE JoinSpaces(_)
JoinSpaces(toks) ==
    IF toks = <<>> THEN ""
    ELSE IF Len(toks) = 1 THEN toks[1]
    ELSE toks[1] \o " " \o JoinSpaces(Tail(toks))

\* balanced: no delimiter is left open; not nested: no quote char stands
\* between the delimiters of the other kind
Balanced(s) == RefOpen(s, "") = ""
NotNested(s) ==
    \A i \in 1..Len(RefMark(s, "")) : RefMark(s, "")[i].c \notin {"'", "\""}
NoTrailingRedirect(s) ==
    LET w == RefWords(RefMark(s, ""), "")
    IN  Len(w) < 2 \/ ~IsRedirectOp(w[Len(w) - 1])
RoundTripInput(s) ==
    ~HasBackslash(s) /\ Balanced(s) /\ NotNested(s) /\ NoTrailingRedirect(s)

\* C6: for a line with balanced, non-nested quotes, no backslash and no
\* trailing redirect, the tokens joined with single spaces are the line with
\* the quote delimiters removed and the whitespace normalized.
C6_RoundTrip ==
    (tok_pc = "done" /\ RoundTripInput(input)) =>
        /\ tok_result.ok
        /\ JoinSpaces(TokensOf(tok_result)) = RefNormal(DropGaps(RefMark(input, "")))

C6_Witness ==
    /\ tok_pc = "done"
    /\ input = "a \" \"a"
    /\ RoundTripInput(input)
    /\ JoinSpaces(TokensOf(tok_result)) = "a  a"

\* C7: the scan goes through every line (the empty one, one ending inside a
\* quote, one ending in a lone backslash, which is added to the token as it
\* is) and flushes the pending token; tokenize returns Err only when
\* parse_redirect rejects the digits of the second-to-last token.
C7_Total ==
    /\ [](tok_pc \in {"scan", "flushed"} => ENABLED NextTok)
    /\ [][(tok_pc = "scan" /\ input_chars = "\\" /\ ~is_in_single_quotes)
            => Appended(1, "\\")]_vars
    /\ [](tok_pc = "flushed" =>
            /\ input_chars = ""
            /\ current_token # "" => (tokens # <<>> /\ tokens[Len(tokens)] = current_token))
    /\ [](tok_pc = "done" /\ ~tok_result.ok =>
            /\ Len(tokens) >= 2
            /\ IsRedirectOp(tokens[Len(tokens) - 1])
            /\ OpPrefix(tokens[Len(tokens) - 1]) # ""
            /\ tok_result.err =
                  "invalid file descriptor: " \o OpPrefix(tokens[Len(tokens) - 1]))

C7_Witness ==
    /\ tok_pc = "done"
    /\ input = "echo hi 99999999999> out.txt"
    /\ tok_result = Err("invalid file descriptor: 99999999999")

-----------------------------------------------------------------------------
(* Shell::run: what the claims say of a pass of the loop *)

OutFile == "/home/u/out.txt"

\* the `echo <w> > f` and `echo <w> >> f` lines, as typed
EchoCreate == [l \in {"echo hi > out.txt", "echo yo > out.txt"} |->
                  IF l = "echo hi > out.txt" THEN "hi" ELSE "yo"]
EchoAppend == [l \in {"echo hi >> out.txt", "echo yo >> out.txt"} |->
                  IF l = "echo hi >> out.txt" THEN "hi" ELSE "yo"]
IsEchoLine(l) == l \in DOMAIN EchoCreate \/ l \in DOMAIN EchoAppend

\* the echoed lines since and including the most recent `>`, after what the
\* file held when no `>` was run
RECURSIVE EchoedSince(_, _)
EchoedSince(before, lines) ==
    IF lines = <<>> THEN before
    ELSE LET l == lines[Len(lines)]
         IN  IF l \in DOMAIN EchoCreate THEN EchoCreate[l] \o "\n"
             ELSE EchoedSince(before, SubSeq(lines, 1, Len(lines) - 1))
                      \o EchoAppend[l] \o "\n"

EchoOnly ==
    /\ sh_pc = "prompt"
    /\ stdin_read # <<>>
    /\ \A i \in 1..Len(stdin_read) : IsEchoLine(stdin_read[i])

\* C2: after any sequence of `echo <w> > f` and `echo <w> >> f` commands on
\* the same file, whatever it held before, the file holds exactly the echoed
\* lines since and including the most recent `>`, each followed by one
\* newline: `>` leaves just its own line, `>>` adds its line at the end.
C2_EchoToFile ==
    EchoOnly => fs[OutFile] = FileOf(EchoedSince(fs_initial[OutFile].data, stdin_read))

\* `echo hi >> out.txt` run twice on an absent file
C2_Witness ==
    /\ EchoOnly
    /\ stdin_read = <<"echo hi >> out.txt", "echo hi >> out.txt">>
    /\ ~fs_initial[OutFile].exists
    /\ fs[OutFile] = FileOf("hi\nhi\n")

Unsupported == redirect.some /\ redirect.fd \notin {1, 2}
UnsupportedMessage == "redirect for fd " \o ToString(redirect.fd) \o " is not supported\n"
\* the pass reported the descriptor and did nothing else
Rejected ==
    /\ term_err = UnsupportedMessage
    /\ term_out = "$ "
    /\ events = <<>>
    /\ ~child.some
\* the step that resolves a descriptor for 1 or 2
Resolves == sh_pc = "resolve" /\ sh_pc' # "resolve" /\ redirect.some /\ redirect.fd \in {1, 2}
Bound ==
    /\ sh_pc' = "dispatch"
    /\ fs'[Absolute(cwd, redirect.target)].exists
    /\ LET file == IF redirect.fd = 1 THEN stdout_redirect_file' ELSE stderr_redirect_file'
           other == IF redirect.fd = 1 THEN stderr_redirect_file' ELSE stdout_redirect_file'
       IN  /\ file.some
           /\ file.path = Absolute(cwd, redirect.target)
           /\ file.append = (redirect.redirect_type = APPEND)
           /\ ~other.some
OpenFailed ==
    /\ sh_pc' = "prompt"
    /\ fs' = fs
    /\ events' = events
    /\ term_err' = term_err \o "failed to open " \o redirect.target
                       \o ": No such file or directory (os error 2)\n"

\* C10 as stated: a descriptor for anything other than 1 or 2 makes the pass
\* report `redirect for fd <n> is not supported`, open no file, run no
\* builtin, launch no process and go back to awaiting input; a descriptor for
\* 1 or 2 has the file opened and bound to the stdout or stderr role.
C10_Original ==
    /\ [](Unsupported => (sh_pc \in {"resolve", "prompt"}
                            /\ (sh_pc = "prompt" => Rejected)))
    /\ [][Unsupported => fs' = fs]_vars
    /\ [][Resolves => Bound]_vars

\* C10: when a command is left after the extraction, a descriptor for anything
\* other than 1 or 2 makes the pass report `redirect for fd <n> is not
\* supported`, open no file, run no builtin, launch no process and go back to
\* awaiting input, and a descriptor for 1 or 2 has the open attempted: the
\* file is bound to the stdout or stderr role when it succeeds, and
\* `failed to open <target>: <reason>` is reported when it does not. When the
\* line held nothing but the redirect, the pass ends with no report and no
\* file opened, whatever the descriptor.
C10_Dispatch ==
    /\ [](Unsupported => (sh_pc \in {"resolve", "prompt"}
                            /\ (sh_pc = "prompt" /\ parts # <<>> => Rejected)))
    /\ []((redirect.some /\ parts = <<>>)
             => (sh_pc = "prompt" /\ term_err = "" /\ events = <<>>))
    /\ [][Unsupported \/ (redirect.some /\ parts = <<>>) => fs' = fs]_vars
    /\ [][Resolves => Bound \/ OpenFailed]_vars

\* `echo hi 3> out.txt` has been turned down
C10_Witness ==
    /\ Unsupported
    /\ redirect.fd = 3
    /\ parts = <<"echo", "hi">>
    /\ sh_pc = "prompt"
    /\ Rejected
    /\ fs = fs_initial

-----------------------------------------------------------------------------
(* main.rs: the redirect forms *)

\* `echo hi <op> out.txt` for each operator the redirect forms list, with the
\* stream and the mode each one names
RedirectForms ==
    { [line |-> "echo hi > out.txt",   fd |-> 1, append |-> FALSE],
      [line |-> "echo hi >> out.txt",  fd |-> 1, append |-> TRUE],
      [line |-> "echo hi 1> out.txt",  fd |-> 1, append |-> FALSE],
      [line |-> "echo hi 1>> out.txt", fd |-> 1, append |-> TRUE],
      [line |-> "echo hi 2> out.txt",  fd |-> 2, append |-> FALSE],
      [line |-> "echo hi 2>> out.txt", fd |-> 2, append |-> TRUE] }

\* what out.txt holds after the one line `echo hi <op> out.txt`
AfterForm(form, before) ==
    IF form.fd = 1 THEN (IF form.append THEN before ELSE "") \o "hi\n"
    ELSE IF form.append THEN before ELSE ""

\* the pass for the first line is over and the shell still runs
FirstLineDone == Len(stdin_read) = 1 /\ sh_pc = "prompt" /\ command # ""

\* C11: the shell of main() takes every redirect form: after
\* `echo hi <op> out.txt`, for <op> one of >, >>, 1>, 1>>, 2>, 2>>, no parse
\* error and no unsupported-descriptor report was made, echo ran, and the
\* file shows the named stream bound in CREATE mode for > and APPEND for >>.
C11_AllForms ==
    \A form \in RedirectForms :
        (FirstLineDone /\ stdin_read[1] = form.line) =>
            /\ term_err = ""
            /\ \E i \in 1..Len(events) : events[i] = Event("builtin", "echo")
            /\ fs[OutFile] = FileOf(AfterForm(form, fs_initial[OutFile].data))
            /\ term_out = IF form.fd = 1 THEN "$ " ELSE "$ hi\n"

-----------------------------------------------------------------------------
(* Shell::run: the ways out, and the builtins seen from the loop *)

Stopped == sh_pc \in {"exited", "returned"}
LastEvent == IF events = <<>> THEN Event("", "") ELSE events[Len(events)]

\* C12: the loop stops (run returns or the process ends) only because the
\* exit builtin returned Exit(code); no error ends it.
C12_OnlyExit ==
    Stopped => (sh_pc = "exited" /\ exit_code.some /\ LastEvent = Event("builtin", "exit"))

\* the step in which the builtin `name` runs and its writes go through
Runs(name) ==
    /\ sh_pc = "dispatch"
    /\ parts[1] = name
    /\ sh_pc' \notin {"dispatch", "returned"}

\* what a step sends to the diagnostic sink and to the normal sink in effect
DiagGot(text) ==
    IF stderr_redirect_file.some
    THEN /\ fs' = [fs EXCEPT ![stderr_redirect_file.path] = FileOf(@.data \o text)]
         /\ term_err' = term_err
    ELSE /\ term_err' = term_err \o text
         /\ fs' = fs
NormalGot(text) ==
    IF stdout_redirect_file.some
    THEN /\ fs' = [fs EXCEPT ![stdout_redirect_file.path] = FileOf(@.data \o text)]
         /\ term_out' = term_out
    ELSE /\ term_out' = term_out \o text
         /\ fs' = fs
OnlyDiagGot(text) == DiagGot(text) /\ term_out' = term_out
OnlyNormalGot(text) == NormalGot(text) /\ term_err' = term_err
NothingWritten == fs' = fs /\ term_out' = term_out /\ term_err' = term_err

\* the first arguments of exit that are integers of 32 bits, with their values
ExitCodes == [a \in {"3", "-1"} |-> IF a = "3" THEN 3 ELSE -1]

\* C13: exit with no argument returns Exit(0) and writes nothing; with a
\* first argument that parses as an integer it returns Exit(that value) and
\* writes nothing; with one that does not parse it writes exactly
\* `exit: <arg>: numeric argument required` and a newline to the diagnostic
\* sink, nothing to the normal sink, and the loop keeps running. The process
\* exits with status c exactly when the builtin returned Exit(c).
C13_Exit ==
    /\ [][Runs("exit") =>
            IF Len(parts) = 1
            THEN sh_pc' = "exited" /\ exit_code' = [some |-> TRUE, val |-> 0] /\ NothingWritten
            ELSE IF parts[2] \in DOMAIN ExitCodes
            THEN /\ sh_pc' = "exited"
                 /\ exit_code' = [some |-> TRUE, val |-> ExitCodes[parts[2]]]
                 /\ NothingWritten
            ELSE /\ sh_pc' = "prompt"
                 /\ exit_code' = None
                 /\ OnlyDiagGot("exit: " \o parts[2] \o ": numeric argument required\n")]_vars
    /\ [][sh_pc' = "exited" /\ sh_pc # "exited" => Runs("exit")]_vars
    /\ [](sh_pc = "exited" <=> exit_code.some)

\* `exit abc 2> out.txt` kept the shell running, then `exit 3` ended it
C13_Witness ==
    /\ stdin_read = <<"exit abc 2> out.txt", "exit 3">>
    /\ sh_pc = "exited"
    /\ exit_code = [some |-> TRUE, val |-> 3]
    /\ fs[OutFile] = FileOf("exit: abc: numeric argument required\n")
    /\ term_err = ""

\* a redirect file is held: by the loop's locals, or by the Command and
\* Child of run_external
HandleOpen ==
    \/ stdout_redirect_file.some
    \/ stderr_redirect_file.some
    \/ (child.some /\ (child.stdout.kind = "File" \/ child.stderr.kind = "File"))
Opened(path) == \E i \in 1..Len(events) : events[i] = Event("open", path)
Happened(op) == \E i \in 1..Len(events) : events[i].op = op

\* C14: whenever the loop is back at awaiting input, no file handle opened
\* for a redirect in an earlier pass is still open, whichever way the pass
\* ended.
C14_HandlesScoped ==
    sh_pc \in {"prompt", "read", "returned"} => ~HandleOpen

\* back at the prompt after a pass that opened out.txt and ended in a
\* builtin, in command-not-found, in a child waited for or in a failed launch
C14_Witness ==
    /\ sh_pc = "prompt"
    /\ Len(stdin_read) = 2
    /\ Opened(OutFile)
    /\ Happened("wait")
    /\ ~HandleOpen

\* the step in which the command of the line is dispatched and the loop
\* goes on
Dispatched == sh_pc = "dispatch" /\ sh_pc' = "prompt"

\* commands that end in a diagnostic, and the line it is
Diagnostics ==
    [p \in {<<"nosuch">>, <<"type", "nosuch">>, <<"cd", "/nodir">>, <<"exit", "abc">>} |->
        CASE p = <<"nosuch">> -> "nosuch: command not found\n"
          [] p = <<"type", "nosuch">> -> "nosuch: not found\n"
          [] p = <<"cd", "/nodir">> -> "/nodir: No such file or directory\n"
          [] p = <<"exit", "abc">> -> "exit: abc: numeric argument required\n"]

\* C15: every diagnostic for a command goes, as one line with its newline,
\* to the diagnostic sink in effect: to the file of a `2>` or `2>>` redirect
\* that was opened and not to the terminal, and otherwise to standard error,
\* never to standard output. This holds for the builtins' complaints, for
\* `<name>: command not found` and for the report of a failed launch.
C15_DiagnosticSink ==
    [][Dispatched =>
          /\ parts \in DOMAIN Diagnostics => OnlyDiagGot(Diagnostics[parts])
          /\ events'[Len(events')].op = "spawn_failed" => OnlyDiagGot(SpawnError \o "\n")]_vars

\* the registry and the PATH, as the claims name them
Registry == {"exit", "echo", "type", "pwd", "cd"}
PathDirs == <<"/usr/local/bin", "/bin">>
OnPath(name) == \E i \in 1..Len(PathDirs) : (PathDirs[i] \o "/" \o name) \in Executables
Count(op) == Cardinality({i \in 1..Len(events) : events[i].op = op})
\* the command of the line is dispatched and run does not return an error
Dispatches == sh_pc = "dispatch" /\ sh_pc' \notin {"dispatch", "returned"}

\* C16: tokens[0] is looked up in the registry first and a builtin name runs
\* the builtin even when the PATH holds an executable of that name; only a
\* name that is no builtin is resolved against the PATH; on no match the pass
\* writes `<name>: command not found` to the diagnostic sink and launches no
\* process; the launcher is called only after the PATH resolved the name, at
\* most once in a pass, and no line is read until the child was waited for.
C16_DispatchOrder ==
    /\ [][Dispatches =>
            IF parts[1] \in Registry
            THEN events' = Append(events, Event("builtin", parts[1])) /\ sh_pc' # "wait"
            ELSE IF OnPath(parts[1])
            THEN \/ events' = Append(events, Event("spawn", parts[1])) /\ sh_pc' = "wait"
                 \/ events' = Append(events, Event("spawn_failed", parts[1]))
                      /\ sh_pc' = "prompt"
            ELSE /\ events' = Append(events, Event("not_found", parts[1]))
                 /\ sh_pc' = "prompt"
                 /\ OnlyDiagGot(parts[1] \o ": command not found\n")]_vars
    /\ [][sh_pc = "wait" =>
            sh_pc' = "prompt" /\ events' = Append(events, Event("wait", parts[1]))]_vars
    /\ [][stdin_read' # stdin_read => sh_pc = "read"]_vars
    /\ [](Count("spawn") + Count("spawn_failed") <= 1)
    /\ [](Count("spawn") + Count("spawn_failed") + Count("builtin") + Count("not_found") <= 1)
    /\ [](sh_pc \in {"prompt", "read"} => Count("wait") = Count("spawn"))

\* `echo hi` ran the builtin though /bin/echo is there, then `ls > out.txt`
\* launched ls once and waited for it
C16_Witness ==
    /\ stdin_read = <<"echo hi", "ls > out.txt">>
    /\ sh_pc = "prompt"
    /\ OnPath("echo")
    /\ events = <<Event("open", OutFile), Event("spawn", "ls"), Event("wait", "ls")>>

\* the step in which the read reports the end of the input
EndOfInput == sh_pc = "read" /\ ~stdin_eof /\ stdin_eof'

\* C17: the end of the input is a pass that does nothing: no command runs
\* and the loop goes back to awaiting input; the loop never stops because of
\* it, and from then on prints the prompt and reads again for ever (as long
\* as the prompt and the read themselves do not fail).
C17_EndOfInput ==
    /\ [][EndOfInput =>
            /\ sh_pc' = "prompt"
            /\ UNCHANGED <<fs, cwd, term_out, term_err, events, child, exit_code, stdin_read>>]_vars
    /\ [](stdin_eof => (sh_pc \in {"prompt", "read", "returned"} /\ events = <<>>))
    /\ [][stdin_eof /\ sh_pc' = "returned" => sh_pc \in {"prompt", "read", "returned"}]_vars
    /\ [](stdin_eof => ([]<>(sh_pc = "read" /\ term_out = "$ ") \/ <>(sh_pc = "returned")))

\* the end of the input was seen, and the prompt is out again with the loop
\* at the read
C17_Witness ==
    /\ stdin_eof
    /\ sh_pc = "read"
    /\ term_out = "$ "
    /\ stdin_read = <<"echo hi > out.txt">>

-----------------------------------------------------------------------------
(* The builtins *)

\* the builtin returned Continue: the loop goes on and nothing else changed
Continues == sh_pc' = "prompt" /\ exit_code' = exit_code

\* C18: echo writes to the normal sink exactly the tokens after the command
\* name joined by single spaces and one newline (just the newline when there
\* are none), writes nothing to the diagnostic sink, and returns Continue.
C18_Echo ==
    [][Runs("echo") =>
          /\ OnlyNormalGot(JoinSpaces(Tail(parts)) \o "\n")
          /\ Continues
          /\ cwd' = cwd]_vars

\* `echo hi 'a b'` wrote its line to the terminal, and `echo` alone an empty
\* line to the file of its redirect
C18_Witness ==
    /\ sh_pc = "prompt"
    /\ \/ parts = <<"echo", "hi", "a b">> /\ ~redirect.some /\ term_out = "$ hi a b\n"
       \/ /\ parts = <<"echo">>
          /\ redirect = Redirect(1, "out.txt", APPEND)
          /\ fs[Absolute(cwd, "out.txt")] = FileOf("old\n\n")
          /\ term_out = "$ "
    /\ term_err = ""

\* the first directory of the PATH that holds the name
RECURSIVE FirstOnPath(_, _)
FirstOnPath(name, i) ==
    IF (PathDirs[i] \o "/" \o name) \in Executables THEN PathDirs[i] \o "/" \o name
    ELSE FirstOnPath(name, i + 1)

\* C19: type with exactly two tokens says `<name> is a shell builtin` on the
\* normal sink, and nothing on the diagnostic sink, for a name of the
\* registry, even when the PATH holds an executable of that name; says
\* `<name> is <resolved-path>` on the normal sink for another name found on
\* the PATH; says `<name>: not found` on the diagnostic sink, and nothing on
\* the normal sink, for a name found nowhere; with any other token count it
\* writes only an arity error to the diagnostic sink. It returns Continue.
C19_Type ==
    [][Runs("type") =>
          /\ Continues
          /\ cwd' = cwd
          /\ IF Len(parts) # 2 THEN OnlyDiagGot("type only accepts 2 arguments\n")
             ELSE IF parts[2] \in Registry
             THEN OnlyNormalGot(parts[2] \o " is a shell builtin\n")
             ELSE IF OnPath(parts[2])
             THEN OnlyNormalGot(parts[2] \o " is " \o FirstOnPath(parts[2], 1) \o "\n")
             ELSE OnlyDiagGot(parts[2] \o ": not found\n")]_vars

\* `type echo` with /bin/echo on the PATH
C19_Witness ==
    /\ sh_pc = "prompt"
    /\ parts = <<"type", "echo">>
    /\ OnPath("echo")
    /\ ~redirect.some
    /\ term_out = "$ echo is a shell builtin\n"
    /\ term_err = ""

\* an argument with no tilde, `~` alone or `~/rest`, and the path it stands for
PlainOrSingleTilde(arg) ==
    \/ SubSeq(arg, 1, 1) # "~"
    \/ arg = "~"
    \/ SubSeq(arg, 1, 2) = "~/"
Expanded(arg) ==
    IF arg = "~" THEN HOME
    ELSE IF SubSeq(arg, 1, 2) = "~/" THEN HOME \o "/" \o SubSeq(arg, 3, Len(arg))
    ELSE arg
\* the directory is there, seen from dir
Enterable(dir, path) ==
    (IF SubSeq(path, 1, 1) = "/" THEN path ELSE dir \o "/" \o path) \in Dirs
CannotEnter(arg) == PlainOrSingleTilde(arg) /\ ~Enterable(cwd, Expanded(arg))

\* C20: when the target of cd cannot be entered, or the argument count is
\* not exactly one, the working directory after cd is the one before it; in
\* the first case the diagnostic sink receives
\* `<original-arg>: No such file or directory` with the argument as typed;
\* the normal sink receives nothing and cd returns Continue.
C20_CdError ==
    [][Runs("cd") =>
          /\ Continues
          /\ IF Len(parts) # 2
             THEN cwd' = cwd /\ OnlyDiagGot("cd only accepts 1 argument\n")
             ELSE (CannotEnter(parts[2]) \/ ~NothingWritten) =>
                     /\ cwd' = cwd
                     /\ OnlyDiagGot(parts[2] \o ": No such file or directory\n")]_vars

\* `cd ~/nodir` from /tmp: the complaint names the argument as typed
C20_Witness ==
    /\ sh_pc = "prompt"
    /\ parts = <<"cd", "~/nodir">>
    /\ cwd = "/tmp"
    /\ ~redirect.some
    /\ term_err = "~/nodir: No such file or directory\n"
    /\ term_out = "$ "

\* where a path leads, seen from dir
Resolved(dir, path) == IF SubSeq(path, 1, 1) = "/" THEN path ELSE dir \o "/" \o path

\* C21: cd turns `~` into the home directory and `~/rest` into
\* `<home>/rest`; only a single leading tilde is expanded, so an argument
\* with more than one leading tilde (`~~`, `~~/x`) or with a name after the
\* tilde (`~bob`) is not rewritten to a path under the home directory: cd
\* enters, or fails to enter, the path that this expansion gives.
C21_TildeExpansion ==
    [][Runs("cd") /\ Len(parts) = 2 =>
          IF Enterable(cwd, Expanded(parts[2]))
          THEN cwd' = Resolved(cwd, Expanded(parts[2])) /\ NothingWritten
          ELSE cwd' = cwd /\ OnlyDiagGot(parts[2] \o ": No such file or directory\n")]_vars

-----------------------------------------------------------------------------
(* tokenize: the quote flags and the tokens *)

Scanning == tok_pc = "scan" /\ input_chars # ""

\* C22: while the single-quote flag is set a backslash is added to the token
\* as an ordinary char and the char after it is handled as usual, so a
\* single quote right after a backslash still closes the quote: `'a\'` is
\* the token a\.
C22_NoEscapeInSingleQuotes ==
    /\ [][Scanning /\ is_in_single_quotes /\ First(input_chars) = "\\"
            => Appended(1, "\\")]_vars
    /\ [][Scanning /\ is_in_single_quotes /\ First(input_chars) = "'"
            => /\ ~is_in_single_quotes'
               /\ is_in_double_quotes' = is_in_double_quotes
               /\ current_token' = current_token
               /\ tokens' = tokens
               /\ input_chars' = Rest(input_chars)]_vars
    /\ [](tok_pc = "done" /\ input = "'a\\'"
            => tok_result = Ok([tokens |-> <<"a\\">>, redirect |-> None]))

C22_Witness ==
    /\ tok_pc = "done"
    /\ input = "'a\\'"
    /\ TokensOf(tok_result) = <<"a\\">>

\* C23: after every char consumed, for every input, the two quote flags are
\* never both set; a double quote seen inside single quotes and a single
\* quote seen inside double quotes are added as literal chars and change
\* neither flag.
C23_QuoteFlags ==
    /\ [](~(is_in_single_quotes /\ is_in_double_quotes))
    /\ [][Scanning /\ is_in_single_quotes /\ First(input_chars) = "\""
            => Appended(1, "\"")]_vars
    /\ [][Scanning /\ is_in_double_quotes /\ First(input_chars) = "'"
            => Appended(1, "'")]_vars

\* `"'"a`: the single quote is in the token, and the double quotes are
\* closed again
C23_Witness ==
    /\ tok_pc = "scan"
    /\ input = "\"'\"a"
    /\ input_chars = "a"
    /\ current_token = "'"
    /\ ~is_in_single_quotes
    /\ ~is_in_double_quotes

-----------------------------------------------------------------------------
(* Shell::run: the redirect file and the command *)

\* the line carries a redirect for 1 or 2 and a command is left
RedirectedCommand == redirect.some /\ redirect.fd \in {1, 2} /\ parts # <<>>
\* the pass is past the match on the redirect
PastResolve == sh_pc \in {"dispatch", "wait", "exited"} \/ (sh_pc = "prompt" /\ events # <<>>)
\* the step that resolves the redirect made the file, emptied in CREATE
\* mode, and nothing else has happened in the pass
OpensFirst(path) ==
    /\ sh_pc' = "dispatch"
    /\ events' = <<Event("open", path)>>
    /\ path \in FilePaths
    /\ fs'[path].exists
    /\ fs'[path].data = IF redirect.redirect_type = CREATE THEN "" ELSE fs[path].data

\* C24 as stated: in every pass whose line carries a redirect for 1 or 2 and
\* a command, the file is created if absent, and emptied in CREATE mode,
\* before tokens[0] is looked up, so on every later path of the pass.
C24_Original ==
    [][sh_pc = "resolve" /\ RedirectedCommand /\ sh_pc' # "resolve"
          => OpensFirst(Resolved(cwd, redirect.target))]_vars

\* C24: in every pass whose line carries a redirect for 1 or 2 and a command,
\* and whose file can be opened, the file is created if absent, and emptied
\* in CREATE mode, before tokens[0] is looked up, so it is there on every
\* later path of the pass: a builtin that writes nothing to that stream, a
\* builtin that fails, command not found, a failed launch. When the file
\* cannot be opened the pass reports it and looks no command up.
C24_OpenedFirst ==
    /\ [][sh_pc = "resolve" /\ RedirectedCommand /\ sh_pc' # "resolve"
            => IF Resolved(cwd, redirect.target) \in FilePaths
               THEN OpensFirst(Resolved(cwd, redirect.target))
               ELSE sh_pc' = "prompt" /\ fs' = fs /\ events' = <<>>]_vars
    /\ [](RedirectedCommand /\ PastResolve
            => /\ events[1].op = "open"
               /\ fs[events[1].arg].exists
               /\ \A i \in 2..Len(events) : events[i].op # "open")
    /\ [][RedirectedCommand /\ sh_pc = "dispatch"
            => fs'[events[1].arg].exists]_vars

\* `echo hi 2> out.txt` over an old out.txt: echo wrote nothing to the file,
\* which was emptied all the same
C24_Witness ==
    /\ sh_pc = "prompt"
    /\ stdin_read = <<"echo hi 2> out.txt">>
    /\ fs_initial[OutFile] = FileOf("old\n")
    /\ fs[OutFile] = FileOf("")
    /\ events = <<Event("open", OutFile), Event("builtin", "echo")>>

-----------------------------------------------------------------------------
(* tokenize: the redirect is found in the resolved words *)

\* the words of a line, before the redirect is looked for
WordsOf(line) == scan_flush(scan_all(scan_init(line)))
\* the lines that write `>` plainly, in quotes and after a backslash
PlainCreate == "echo hi > f"
WrittenCreate == {PlainCreate, "echo hi \">\" f", "echo hi \\> f"}
PlainAppend == "echo hi 2>> f"
WrittenAppend ==
    {PlainAppend, "echo hi '2>>' f", "echo hi 2\\>\\> f", "echo hi \"2>\"> f"}

\* C25: the redirect depends on the resolved words alone: two lines with the
\* same words give the same clean tokens and the same descriptor, so `>` or
\* `2>>` written in quotes or after a backslash in the last place but one is
\* taken out as a redirect like the plain operator.
C25_WordsOnly ==
    /\ [][tok_pc = "flushed"
            => \A line \in ExampleLines :
                   WordsOf(line) = tokens => tokenize(line) = tok_result']_vars
    /\ [](tok_pc = "done" /\ input \in WrittenCreate
            => tok_result = Ok([tokens |-> <<"echo", "hi">>,
                                redirect |-> Redirect(1, "f", CREATE)]))
    /\ [](tok_pc = "done" /\ input \in WrittenAppend
            => tok_result = Ok([tokens |-> <<"echo", "hi">>,
                                redirect |-> Redirect(2, "f", APPEND)]))

\* `echo hi ">" f` is done, with the result of `echo hi > f`
C25_Witness ==
    /\ tok_pc = "done"
    /\ input = "echo hi \">\" f"
    /\ WordsOf(input) = WordsOf(PlainCreate)
    /\ tok_result = tokenize(PlainCreate)
    /\ tok_result.val.redirect = Redirect(1, "f", CREATE)

-----------------------------------------------------------------------------
(* tokenize: no token is empty *)

NonEmpty(toks) == \A i \in 1..Len(toks) : toks[i] # ""
Unquoted == ~is_in_single_quotes /\ ~is_in_double_quotes
\* the lines whose only quotes are an empty pair standing alone
EmptyQuoted == {"\"\"", "''", " '' ", "a \"\"", "'' a", "a \"\" a", "a '' a", "\"\" ''"}
\* the words of such a line: those of the line without the pair
WithoutEmpty(line) ==
    IF line \in {"a \"\" a", "a '' a"} THEN <<"a", "a">>
    ELSE IF line \in {"a \"\"", "'' a"} THEN <<"a">>
    ELSE <<>>
\* quoted and unquoted parts side by side, and the one token they make
Adjacent ==
    {<<"a\"a\"", "aa">>, <<"\"a\"a", "aa">>, <<"a'a'", "aa">>, <<"'a'\"a\"", "aa">>,
     <<"a\"a\"a", "aaa">>, <<"a\" \"a", "a a">>, <<"a''a", "aa">>, <<"\"\"a''", "a">>}

\* C26: no token of tokenize is empty: an empty pair of quotes standing alone
\* between whitespace gives no token, and quoted and unquoted parts with no
\* unquoted whitespace between them make one token.
C26_NoEmptyToken ==
    /\ [](NonEmpty(tokens) /\ (tok_pc = "done" /\ tok_result.ok => NonEmpty(TokensOf(tok_result))))
    /\ [](tok_pc = "done" /\ input \in EmptyQuoted
            => tok_result = Ok([tokens |-> WithoutEmpty(input), redirect |-> None]))
    /\ [](\A pair \in Adjacent :
            tok_pc = "done" /\ input = pair[1]
                => tok_result = Ok([tokens |-> <<pair[2]>>, redirect |-> None]))
    /\ [][Scanning /\ tokens' # tokens
            => /\ Unquoted /\ is_whitespace(First(input_chars))
               /\ current_token # ""
               /\ tokens' = Append(tokens, current_token)]_vars

\* `a "" a` is done: two tokens, none for the empty pair
C26_Witness ==
    /\ tok_pc = "done"
    /\ input = "a \"\" a"
    /\ TokensOf(tok_result) = <<"a", "a">>

====
